---- MODULE Spec2Model ----
(***************************************************************************)
(* VoxVM: the heap allocator (heap.rs), the mark-and-sweep collector       *)
(* (gc.rs) and the interpreter loop with the instructions that drive them  *)
(* (vm.rs, stack.rs), as a state machine.                                  *)
(*                                                                         *)
(* The program executed by the VM is not part of the state: every step of  *)
(* the interpreter executes some instruction with some operands, so a      *)
(* behaviour of the model is the execution of some program.                *)
(***************************************************************************)
EXTENDS Integers, Sequences, FiniteSets, TLC

VARIABLES
    heap_size,          \* init_heap handed to VM::new / Heap::new
    vm,                 \* struct VM; vm.panic: a handler has panicked
    since_cleanup,      \* the local since_cleanup of VM::run
    last,               \* history: the last operation, its operands and result
    cycle,              \* history: the collection cycle run by the last step
    hist,               \* history: what the program has done with its blocks
    asm                 \* struct VoxAssembly and the line its pass is at

vars == <<since_cleanup, last, heap_size, vm, cycle, hist, asm>>

(***************************************************************************)
(* Bounds of the model.                                                    *)
(***************************************************************************)
MaxHeap == 6            \* largest heap capacity of the alloc/free runs
RwHeap == 3             \* largest heap capacity of the runs that also write
MaxAlloc == 3           \* largest size requested of Heap::alloc
MaxWrite == MaxAlloc + 1 \* longest byte vector handed to Heap::write
VmHeap == 34            \* heap capacity of the VM runs (init_heap)
MemCap == 2505          \* memory.capacity() of the VM runs (init_mem)
GcWindow == 3            \* the VM runs start at most this many instructions
                        \* before the one that triggers a collection
RefsWindow == 4         \* the same for the runs of alloc, store and uload
Regs == {0, 1, 2}       \* register operands of the instructions
ArithMem == 40          \* memory.capacity() of the arithmetic runs
Imms == {0, 8}          \* immediate operands of uload
AllocSizes == {16}      \* immediate operand of alloc
UImms == {0, 7}         \* immediate operands of uload in the arithmetic runs
IImms == {0, 2, 7}      \* immediate operands of iload
CallMem == 40           \* memory.capacity() of the runs of calls and returns
CallSteps == 5          \* instructions executed in the runs of calls and returns
RecDepth == 2           \* max_recursion_depth of the runs of calls and returns
FloatMem == 30          \* memory.capacity() of the floating-point runs
ExcMem == 36            \* memory.capacity() of the runs that raise and catch
StackMem == 38          \* memory.capacity() of the operand-stack runs
DsBase == 50             \* length of the code segment of the data-segment runs
DsValue == 5             \* payload of the records of the data segment
StackSteps == 5         \* instructions of an operand-stack run
ImageMem == 16          \* memory.capacity() of the VM that loads the image
ProgLen == 5            \* lines of an assembled program
StepMem == 24           \* memory.capacity() of the runs with nop and ncall
StepSteps == 4          \* turns of the loop of VM::run in those runs
CmpMem == 36            \* memory.capacity() of the runs of comparisons and jumps
FlagMem == 40           \* memory.capacity() of the runs of arithmetic and bitwise instructions
FlagSteps == 3          \* instructions of those runs after the first
LiveMem == 31           \* memory.capacity() of the runs that go on through collection cycles
StoreMem == 36          \* memory.capacity() of the alloc, free and store runs
FImms == {-4, 0, 16}    \* immediate operands of fload
ExcNums == {1, 3}       \* exception numbers given to jexc
ExcCodes == {3, 6}      \* exception numbers given to jexc in the runs that
                        \* raise and catch
CallRegs == {0, 1}      \* register operands of fnstind and callr
FuncAddrs == {19, 29}   \* entries of the function table
FuncInds == {0, 1, 2}   \* function indices given to call and fnstind
DsRels == {0, 9, 17}     \* rel_addr operands: the two records, a payload byte
DsOffsets == {0, 4, 17}  \* offset operands of dssave
DerefOffsets == {0, 8}   \* offset operands of dsload, dslea and dsderef
LiveSizes == {8}         \* immediate operand of alloc in the runs through collection cycles
NcallNums == {1, 2}     \* native codes: println, and one without a handler
Magics == {<<86, 86, 69, 0>>, <<86, 86, 82, 0>>}   \* "VVE\0" and "VVR\0"
Versions == {2, 3, 4}   \* version fields of the headers
ImageAddrs == {0, 258, 70000}                      \* entry points
FuncTables == {<<>>, <<258>>, <<70000, 1>>, <<0, 258, 9>>}
CmpRegs == {0, 1}       \* register operands in the runs of comparisons and flags
CmpImms == {-1, 0, 2}   \* immediates of uload and iload there; -1 is the u64 2^64 - 1
JumpSkips == {0, 4}     \* jexc handler address: bytes past the end of the jexc

(***************************************************************************)
(* Helpers for usize arithmetic and Vec operations.                        *)
(***************************************************************************)
saturating_sub(a, b) == IF a >= b THEN a - b ELSE 0

RemoveAt(s, i) == SubSeq(s, 1, i - 1) \o SubSeq(s, i + 1, Len(s))

MinOf(S) == CHOOSE x \in S : \A y \in S : x <= y

RECURSIVE SumSeq(_)
SumSeq(s) == IF s = <<>> THEN 0 ELSE Head(s) + SumSeq(Tail(s))

(***************************************************************************)
(* HeapBlock::new / HeapBlock::realloc: size is last - start.              *)
(* Both panic when end < start; no caller below passes such a pair.        *)
(***************************************************************************)
HeapBlockNew_counts_last(start, end) ==
    [start_byte |-> start, last_byte |-> end, size |-> end - start + 1]

HeapBlockNew(start, end) ==
    [start_byte |-> start, last_byte |-> end, size |-> end - start]

(***************************************************************************)
(* Heap::new                                                               *)
(***************************************************************************)
HeapNew(size) ==
    [heap       |-> <<>>,
     free_list  |-> <<HeapBlockNew(0, saturating_sub(size, 1))>>,
     allocated  |-> <<>>,
     saved_refs |-> {}]

(***************************************************************************)
(* Heap::alloc: first free block with size >= count_bytes; the allocated   *)
(* block is [start, start + count_bytes]; the free block is removed when   *)
(* nothing is left after it, else it shrinks to [end + 1, last].           *)
(***************************************************************************)
alloc_last_fit(h, count_bytes) ==
    LET fits == {i \in 1..Len(h.free_list) : h.free_list[i].size >= count_bytes}
    IN  IF fits = {}
        THEN [ok |-> FALSE, ptr |-> 0, heap |-> h]
        ELSE
            LET ind        == CHOOSE x \in fits : \A y \in fits : x >= y
                free_block == h.free_list[ind]
                start_ptr  == free_block.start_byte
                end_ptr    == start_ptr + count_bytes
                new_alloc  == HeapBlockNew(start_ptr, end_ptr)
                fl == IF saturating_sub(free_block.last_byte, end_ptr) = 0
                      THEN RemoveAt(h.free_list, ind)
                      ELSE [h.free_list EXCEPT
                              ![ind] = HeapBlockNew(end_ptr + 1, free_block.last_byte)]
            IN  [ok |-> TRUE, ptr |-> start_ptr,
                 heap |-> [h EXCEPT !.allocated = Append(@, new_alloc),
                                    !.free_list = fl]]

alloc(h, count_bytes) ==
    LET fits == {i \in 1..Len(h.free_list) : h.free_list[i].size >= count_bytes}
    IN  IF fits = {}
        THEN [ok |-> FALSE, ptr |-> 0, heap |-> h]
        ELSE
            LET ind        == MinOf(fits)
                free_block == h.free_list[ind]
                start_ptr  == free_block.start_byte
                end_ptr    == start_ptr + count_bytes
                new_alloc  == HeapBlockNew(start_ptr, end_ptr)
                fl == IF saturating_sub(free_block.last_byte, end_ptr) = 0
                      THEN RemoveAt(h.free_list, ind)
                      ELSE [h.free_list EXCEPT
                              ![ind] = HeapBlockNew(end_ptr + 1, free_block.last_byte)]
            IN  [ok |-> TRUE, ptr |-> start_ptr,
                 heap |-> [h EXCEPT !.allocated = Append(@, new_alloc),
                                    !.free_list = fl]]

(***************************************************************************)
(* sort_by(start_byte): a stable sort (insertion into a sorted prefix).    *)
(***************************************************************************)
RECURSIVE InsertSorted(_, _)
InsertSorted(s, b) ==
    IF s = <<>> THEN <<b>>
    ELSE IF Head(s).start_byte <= b.start_byte
         THEN <<Head(s)>> \o InsertSorted(Tail(s), b)
         ELSE <<b>> \o s

sort_by_start_unsorted(s) == s

RECURSIVE sort_by_start(_)
sort_by_start(s) ==
    IF s = <<>> THEN <<>>
    ELSE InsertSorted(sort_by_start(SubSeq(s, 1, Len(s) - 1)), s[Len(s)])

(***************************************************************************)
(* Heap::merge_free_blocks: one pass; a block absorbs its successor while  *)
(* cur.last_byte = next.start_byte - 1 (saturating).                       *)
(***************************************************************************)
RECURSIVE merge_from(_, _)
merge_from(fl, cur_ind) ==
    IF cur_ind > Len(fl) THEN fl
    ELSE IF cur_ind + 1 > Len(fl) THEN merge_from(fl, cur_ind + 1)
    ELSE IF fl[cur_ind].last_byte = saturating_sub(fl[cur_ind + 1].start_byte, 1)
         THEN merge_from(
                RemoveAt([fl EXCEPT ![cur_ind] =
                            HeapBlockNew(fl[cur_ind].start_byte,
                                         fl[cur_ind + 1].last_byte)],
                         cur_ind + 1),
                cur_ind)
         ELSE merge_from(fl, cur_ind + 1)

merge_free_blocks_none(fl) == fl

merge_free_blocks(fl) == merge_from(fl, 1)

(***************************************************************************)
(* Heap::free: the first allocated block starting at ptr is removed, a     *)
(* free block of the same extent is pushed, the list sorted and merged.    *)
(***************************************************************************)
free_keeps_block(h, ptr) ==
    LET found == {i \in 1..Len(h.allocated) : h.allocated[i].start_byte = ptr}
    IN  IF found = {}
        THEN [ok |-> FALSE, heap |-> h]
        ELSE
            LET to_free   == MinOf(found)
                freed_end == h.allocated[to_free].last_byte
                new_free_block == HeapBlockNew(ptr, freed_end)
            IN  [ok |-> TRUE,
                 heap |-> [h EXCEPT
                    !.free_list = merge_free_blocks(
                                    sort_by_start(Append(@, new_free_block)))]]

free(h, ptr) ==
    LET found == {i \in 1..Len(h.allocated) : h.allocated[i].start_byte = ptr}
    IN  IF found = {}
        THEN [ok |-> FALSE, heap |-> h]
        ELSE
            LET to_free   == MinOf(found)
                freed_end == h.allocated[to_free].last_byte
                new_free_block == HeapBlockNew(ptr, freed_end)
            IN  [ok |-> TRUE,
                 heap |-> [h EXCEPT
                    !.allocated = RemoveAt(@, to_free),
                    !.free_list = merge_free_blocks(
                                    sort_by_start(Append(@, new_free_block)))]]

(***************************************************************************)
(* Heap::free_all: frees the start of every allocated block, in order.     *)
(***************************************************************************)
RECURSIVE free_each(_, _)
free_each(h, ptrs) ==
    IF ptrs = <<>> THEN h ELSE free_each(free(h, Head(ptrs)).heap, Tail(ptrs))

free_all(h) ==
    free_each(h, [i \in 1..Len(h.allocated) |-> h.allocated[i].start_byte])

(***************************************************************************)
(* Heap::write: the first allocated block with                             *)
(*   start <= ptr <= last  and  ptr + len <= last                          *)
(* takes the bytes; the byte vector is zero-extended up to ptr + 1 and     *)
(* then written (or pushed) byte by byte.                                  *)
(***************************************************************************)
write_fits_last_byte(b, ptr, len) ==
    /\ ptr >= b.start_byte
    /\ ptr <= b.last_byte
    /\ ptr + len <= b.last_byte + 1

write_fits(b, ptr, len) ==
    /\ ptr >= b.start_byte
    /\ ptr <= b.last_byte
    /\ ptr + len <= b.last_byte

Zeros(n) == [i \in 1..n |-> 0]

write_bytes(bytes, ptr, data) ==
    LET grown == IF Len(bytes) < ptr + 1
                 THEN bytes \o Zeros(ptr + 1 - Len(bytes)) ELSE bytes
        newlen == IF ptr + Len(data) > Len(grown) THEN ptr + Len(data) ELSE Len(grown)
    IN  [i \in 1..newlen |->
            IF i > ptr /\ i <= ptr + Len(data) THEN data[i - ptr] ELSE grown[i]]

write(h, ptr, data) ==
    IF \E i \in 1..Len(h.allocated) : write_fits(h.allocated[i], ptr, Len(data))
    THEN [ok |-> TRUE, heap |-> [h EXCEPT !.heap = write_bytes(@, ptr, data)]]
    ELSE [ok |-> FALSE, heap |-> h]

(***************************************************************************)
(* Heap::read: the first allocated block with                              *)
(*   start <= ptr <= last  and  ptr + (n - 1) <= last                      *)
(* decides: the bytes ptr..last_toread, or Err when the byte vector is     *)
(* shorter than that.                                                      *)
(***************************************************************************)
read_fits(b, ptr, count_bytes) ==
    /\ ptr >= b.start_byte
    /\ ptr <= b.last_byte
    /\ ptr + saturating_sub(count_bytes, 1) <= b.last_byte

read(h, ptr, count_bytes) ==
    LET last_toread == ptr + saturating_sub(count_bytes, 1)
    IN  IF /\ \E i \in 1..Len(h.allocated) : read_fits(h.allocated[i], ptr, count_bytes)
           /\ last_toread + 1 <= Len(h.heap)
        THEN [ok |-> TRUE, bytes |-> [i \in 1..(last_toread + 1 - ptr) |-> h.heap[ptr + i]]]
        ELSE [ok |-> FALSE, bytes |-> <<>>]

(***************************************************************************)
(* Program constants.                                                      *)
(***************************************************************************)
NumRegs == 32           \* registers: [Register; 32]
DEFAULT_RECURSION_LIMIT == 1000
GcPeriod == 250         \* run: if since_cleanup >= 250
WordBytes == 8          \* u64::to_be_bytes

(***************************************************************************)
(* Register (registers.rs) and RegTypes (vm.rs). A register is a variant   *)
(* with its payload; reg_types holds the tag the VM tracks next to it.     *)
(***************************************************************************)
Register(variant, val) == [tag |-> variant, val |-> val]

\* The registers of the runs below hold uint, address and int payloads in
\* 0..2^31 - 1: on these the casts `as i64` and `as u64` keep the value. A
\* float register or a negative int has no image under the three
\* conversions here.

\* Register::from_u64_bits
from_u64_bits(val, to_type) ==
    CASE to_type = "uint64"  -> Register("uint", val)
      [] to_type = "int64"   -> Register("int", val)
      [] to_type = "StrAddr" -> Register("StrAddr", val)
      [] to_type = "address" -> Register("address", val)
      [] to_type = "ds_addr" -> Register("ds_addr", val)

\* Register::as_u64
as_u64(r) ==
    CASE r.tag \in {"uint", "StrAddr", "address", "ds_addr"} -> r.val
      [] r.tag = "int" /\ r.val >= 0 -> r.val
      [] r.tag = "float" /\ (r.val.nan \/ r.val.num <= 0) -> 0
      [] r.tag = "float" /\ ~r.val.nan /\ r.val.num > 0 /\ r.val.root = 0 -> r.val.num

\* Register::as_u64_bitwise
as_u64_bitwise(r) ==
    CASE r.tag \in {"uint", "StrAddr", "address", "ds_addr"} -> r.val
      [] r.tag = "int" /\ r.val >= 0 -> r.val

\* u64::to_be_bytes, of a value below 2^24: eight bytes, the five most
\* significant ones 0
RECURSIVE Pow256(_)
Pow256(k) == IF k = 0 THEN 1 ELSE 256 * Pow256(k - 1)

to_be_bytes(val) ==
    [i \in 1..WordBytes |->
        IF WordBytes - i > 2 THEN 0 ELSE (val \div Pow256(WordBytes - i)) % 256]

(***************************************************************************)
(* GC (gc.rs). objects is the tracking list; unmarked holds 0-based        *)
(* indices into it.                                                        *)
(***************************************************************************)
GcObjectNew(ptr) == [heap_ptr |-> ptr, marked |-> FALSE]

GCNew == [objects |-> <<>>, main_refs |-> {}, t2_refs |-> {}, unmarked |-> <<>>]

pin_object(gc, obj) == [gc EXCEPT !.objects = Append(@, obj)]

\* the pointers the breadth-first search of GC::mark reaches from refs
\* along the edges of t2_refs (a set of <<source, target>> pairs)
RECURSIVE reachable_from(_, _)
reachable_from(refs, t2_refs) ==
    LET next == refs \cup {e[2] : e \in {d \in t2_refs : d[1] \in refs}}
    IN  IF next = refs THEN refs ELSE reachable_from(next, t2_refs)

\* GC::mark
mark(gc, t1_refs, t2_refs) ==
    LET refs      == gc.main_refs \cup t1_refs
        reachable == reachable_from(refs, t2_refs)
        n         == Len(gc.objects)
        isin(i)   == gc.objects[i].heap_ptr \in reachable
    IN  [gc EXCEPT
            !.t2_refs  = t2_refs,
            !.objects  = [i \in 1..n |-> [gc.objects[i] EXCEPT !.marked = isin(i)]],
            !.unmarked = SelectSeq([i \in 1..n |-> i - 1],
                                   LAMBDA idx : ~isin(idx + 1))]

\* sort_unstable_by(|a, b| b.cmp(a)) followed by dedup: the distinct
\* elements, largest first
RECURSIVE sorted_desc(_)
sorted_desc(S) ==
    IF S = {} THEN <<>>
    ELSE LET m == CHOOSE x \in S : \A y \in S : y <= x
         IN  <<m>> \o sorted_desc(S \ {m})

Reverse(s) == [i \in 1..Len(s) |-> s[Len(s) + 1 - i]]

\* the loop of GC::sweep with the guard idx + 1 < len, which never removes
\* the last object of the list
RECURSIVE sweep_loop_short(_, _, _)
sweep_loop_short(objects, idxs, res) ==
    IF idxs = <<>> THEN [objects |-> objects, res |-> res]
    ELSE LET idx == Head(idxs)
         IN  IF idx + 1 < Len(objects)
             THEN sweep_loop_short(RemoveAt(objects, idx + 1), Tail(idxs),
                                   Append(res, objects[idx + 1].heap_ptr))
             ELSE sweep_loop_short(objects, Tail(idxs), res)

\* the loop of GC::sweep over idxs: objects.remove(idx) when idx < len
RECURSIVE sweep_loop(_, _, _)
sweep_loop(objects, idxs, res) ==
    IF idxs = <<>> THEN [objects |-> objects, res |-> res]
    ELSE LET idx == Head(idxs)
         IN  IF idx < Len(objects)
             THEN sweep_loop(RemoveAt(objects, idx + 1), Tail(idxs),
                             Append(res, objects[idx + 1].heap_ptr))
             ELSE sweep_loop(objects, Tail(idxs), res)

\* the order in which GC::sweep visits unmarked: self.unmarked.iter().rev()
\* of the list sorted largest first
sweep_order(unmarked) ==
    Reverse(sorted_desc({unmarked[i] : i \in 1..Len(unmarked)}))

\* GC::sweep: the tracking list afterwards and the pointers to free
sweep(gc) ==
    LET r == sweep_loop(gc.objects, sweep_order(gc.unmarked), <<>>)
    IN  [gc |-> [gc EXCEPT !.objects = r.objects, !.unmarked = <<>>],
         res |-> r.res]

(***************************************************************************)
(* VM::new (vm.rs)                                                         *)
(***************************************************************************)
VMNew(init_mem, init_heap, max_recursion_depth) ==
    [registers         |-> [i \in 0..(NumRegs - 1) |-> Register("uint", 0)],
     reg_types         |-> [i \in 0..(NumRegs - 1) |-> "uint64"],
     flags             |-> <<0, 0, 0, 0>>,
     ip                |-> 0,
     memory_capacity   |-> init_mem,   \* memory: Vec::with_capacity(init_mem)
     memory            |-> <<>>,       \* the bytes of memory from data_base
                                       \* to memory.len(), by address; the
                                       \* code below data_base is what the
                                       \* actions fetch
     stack             |-> <<>>,
     heap              |-> HeapNew(init_heap),
     data_base         |-> 0,
     data_size         |-> 0,
     func_table        |-> <<>>,
     call_stack        |-> <<>>,
     rec_depth_max     |-> max_recursion_depth,
     gc                |-> GCNew,
     running           |-> TRUE,
     exceptions_active |-> <<>>,
     panic             |-> FALSE]

NoCycle == [ran |-> FALSE]

\* nogc: the blocks obtained from allocr_nogc and not yet freed by a free
\*       instruction;
\* stores: <<a, s, t>> for every pointer t that a store wrote from a register
\*       tagged address into the slot s of the allocated block starting at a,
\*       while that block and the block at t are not freed and the bytes of
\*       the slot are not overwritten
\* code: <<ip, instruction>> for every instruction the run has fetched, in
\*       the runs that can fetch from an address twice
\* frames: for every frame of the call stack, the return address its call
\*       pushed and the call stack below it
\* header, file: the header handed to VoxExeHeader::write and the bytes of
\*       the image file, in the runs that write and load an image
\* offsets: Len(bin_buffer) as the second pass of the assembler came to each
\*       line it has handled
\* checks: the VM was built with overflow checks (a debug build), so that
\*       +, - and * panic on integer overflow instead of wrapping
NoHist == [nogc |-> {}, stores |-> {}, code |-> {}, frames |-> <<>>,
           header |-> <<>>, file |-> <<>>, offsets |-> <<>>,
           checks |-> FALSE]

\* no assembler at work
NoAsm == [stage |-> "none"]

(***************************************************************************)
(* The allocator on its own: any sequence of calls of the Heap methods.    *)
(* last records the call just made: op, ok, for an alloc its size n and    *)
(* the pointer returned, and rel, how a free or a write relates to the     *)
(* alloc made just before it:                                              *)
(*   "undo"  free(p),        p  returned by that alloc                     *)
(*   "exact" write(p, data), p  returned by that alloc(n), Len(data) = n   *)
(*   "over"  write(p, data), p  returned by that alloc(n), Len(data) = n+1 *)
(***************************************************************************)
NoOp == [op |-> "none", ok |-> TRUE, n |-> 0, ptr |-> 0, rel |-> "none",
         ip |-> 0, zero |-> FALSE]

bytes_of(len) == [i \in 1..len |-> 1]

HeapInit ==
    /\ heap_size \in 0..MaxHeap
    /\ vm = VMNew(MemCap, heap_size, DEFAULT_RECURSION_LIMIT)
    /\ last = NoOp
    /\ since_cleanup = 0
    /\ cycle = NoCycle
    /\ hist = NoHist
    /\ asm = NoAsm

\* heap.alloc(n)
CallAlloc(n) ==
    LET r == alloc(vm.heap, n)
    IN  /\ vm' = [vm EXCEPT !.heap = r.heap]
        /\ last' = [NoOp EXCEPT !.op = "alloc", !.ok = r.ok,
                                !.n = IF r.ok THEN n ELSE 0, !.ptr = r.ptr]
        /\ UNCHANGED <<heap_size, since_cleanup, cycle, hist, asm>>

\* heap.free(ptr)
CallFree(ptr) ==
    LET r == free(vm.heap, ptr)
    IN  /\ vm' = [vm EXCEPT !.heap = r.heap]
        /\ last' = [NoOp EXCEPT !.op = "free", !.ok = r.ok,
                     !.rel = IF last.op = "alloc" /\ last.ok /\ last.ptr = ptr
                             THEN "undo" ELSE "none"]
        /\ UNCHANGED <<heap_size, since_cleanup, cycle, hist, asm>>

\* heap.free_all()
CallFreeAll ==
    /\ vm' = [vm EXCEPT !.heap = free_all(vm.heap)]
    /\ last' = [NoOp EXCEPT !.op = "free_all"]
    /\ UNCHANGED <<heap_size, since_cleanup, cycle, hist, asm>>

\* heap.write(ptr, data), data being len bytes
CallWrite(ptr, len) ==
    LET r == write(vm.heap, ptr, bytes_of(len))
        after == last.op = "alloc" /\ last.ok /\ last.ptr = ptr
    IN  /\ vm' = [vm EXCEPT !.heap = r.heap]
        /\ last' = [NoOp EXCEPT !.op = "write", !.ok = r.ok,
                     !.rel = IF after /\ len = last.n THEN "exact"
                             ELSE IF after /\ len = last.n + 1 THEN "over"
                             ELSE "none"]
        /\ UNCHANGED <<heap_size, since_cleanup, cycle, hist, asm>>

HeapNext ==
    \/ \E n \in 0..MaxAlloc : CallAlloc(n)
    \/ \E p \in 0..MaxHeap : CallFree(p)
    \/ CallFreeAll

SpecHeap == HeapInit /\ [][HeapNext]_vars

HeapRwInit ==
    /\ heap_size \in 0..RwHeap
    /\ vm = VMNew(MemCap, heap_size, DEFAULT_RECURSION_LIMIT)
    /\ last = NoOp
    /\ since_cleanup = 0
    /\ cycle = NoCycle
    /\ hist = NoHist
    /\ asm = NoAsm

HeapRwNext ==
    \/ \E n \in 0..MaxAlloc : CallAlloc(n)
    \/ \E p \in 0..RwHeap : CallFree(p)
    \/ \E p \in 0..RwHeap, len \in 0..MaxWrite : CallWrite(p, len)

SpecHeapRW == HeapRwInit /\ [][HeapRwNext]_vars

(***************************************************************************)
(* Instruction handlers. Each takes the VM and the operands the handler    *)
(* decodes from memory at ip, and gives the VM after the handler; a Rust   *)
(* panic sets panic and leaves the rest as it was.                         *)
(*                                                                         *)
(* The handlers of heap.rs read and assign vm.registers[i] as a u64: here  *)
(* they read the payload of the register and assign the register of the    *)
(* tag they set in reg_types.                                              *)
(***************************************************************************)
raise(vm_, exc) == [vm_ EXCEPT !.exceptions_active = Append(@, exc)]

abort(vm_) == [vm_ EXCEPT !.panic = TRUE]

\* the tail shared by op_alloc, op_allocr and op_allocr_nogc: the match on
\* heap.alloc, the pin when the object goes to the collector, the register
\* and its tag, the instruction size
alloc_into(vm_, r_dest_ind, size_bytes, pinned, isize) ==
    LET r   == alloc(vm_.heap, size_bytes)
        res == IF r.ok THEN r.ptr ELSE 0
        v1  == IF r.ok THEN [vm_ EXCEPT !.heap = r.heap]
               ELSE raise(vm_, "HeapAllocationFault")
        v2  == IF pinned
               THEN [v1 EXCEPT !.gc = pin_object(@, GcObjectNew(res))] ELSE v1
    IN  [v2 EXCEPT !.registers[r_dest_ind] = from_u64_bits(res, "address"),
                   !.reg_types[r_dest_ind] = "address",
                   !.ip = @ + isize]

\* 0xA0 alloc Rdest Size_bytes
op_alloc(vm_, r_dest_ind, size_bytes) ==
    alloc_into(vm_, r_dest_ind, size_bytes, TRUE, 10)

\* 0xA3 allocr Rdest Rsize
op_allocr(vm_, r_dest_ind, r_size_ind) ==
    alloc_into(vm_, r_dest_ind, as_u64(vm_.registers[r_size_ind]), TRUE, 3)

\* 0xA5 allocr_nogc Rdest Rsize
op_allocr_nogc(vm_, r_dest_ind, r_size_ind) ==
    alloc_into(vm_, r_dest_ind, as_u64(vm_.registers[r_size_ind]), FALSE, 3)

op_free_silent(vm_, r_src_ind) ==
    LET r  == free(vm_.heap, as_u64(vm_.registers[r_src_ind]))
        v1 == IF r.ok THEN [vm_ EXCEPT !.heap = r.heap] ELSE vm_
    IN  [v1 EXCEPT !.ip = @ + 2]

\* 0xA1 free Rsrc
op_free(vm_, r_src_ind) ==
    LET r  == free(vm_.heap, as_u64(vm_.registers[r_src_ind]))
        v1 == IF r.ok THEN [vm_ EXCEPT !.heap = r.heap]
              ELSE raise(vm_, "HeapFreeFault")
    IN  [v1 EXCEPT !.ip = @ + 2]

op_store_any_tag(vm_, r_dest_ind, r_src_ind) ==
    LET val == as_u64(vm_.registers[r_src_ind])
        ptr == as_u64(vm_.registers[r_dest_ind])
        r   == write(vm_.heap, ptr, to_be_bytes(val))
        v1  == IF r.ok
               THEN [vm_ EXCEPT !.heap =
                        [r.heap EXCEPT !.saved_refs = @ \cup {<<ptr, val>>}]]
               ELSE raise(vm_, "HeapWriteFault")
    IN  [v1 EXCEPT !.ip = @ + 3]

\* 0xA2 store Rdest Rsrc
op_store(vm_, r_dest_ind, r_src_ind) ==
    LET val == as_u64(vm_.registers[r_src_ind])
        ptr == as_u64(vm_.registers[r_dest_ind])
        r   == write(vm_.heap, ptr, to_be_bytes(val))
        v1  == IF r.ok
               THEN IF vm_.reg_types[r_src_ind] = "address"
                    THEN [vm_ EXCEPT !.heap =
                            [r.heap EXCEPT !.saved_refs = @ \cup {<<ptr, val>>}]]
                    ELSE [vm_ EXCEPT !.heap = r.heap]
               ELSE raise(vm_, "HeapWriteFault")
    IN  [v1 EXCEPT !.ip = @ + 3]

\* 0x10 uload Rdest value
op_uload(vm_, register_ind, value) ==
    [vm_ EXCEPT !.registers[register_ind] = Register("uint", value),
                !.reg_types[register_ind] = "uint64",
                !.ip = @ + 10]

\* 0x20 iload Rdest value
op_iload(vm_, register_ind, value) ==
    [vm_ EXCEPT !.registers[register_ind] = Register("int", value),
                !.reg_types[register_ind] = "int64",
                !.ip = @ + 10]

\* 0x57 utop Rdest Rsrc
op_utop(vm_, r_dest_ind, r_src_ind) ==
    [vm_ EXCEPT
        !.registers[r_dest_ind] = Register("address", as_u64(vm_.registers[r_src_ind])),
        !.reg_types[r_dest_ind] = "address",
        !.ip = @ + 3]

\* 0x80 push Rsrc
op_push(vm_, r_src_ind) ==
    [vm_ EXCEPT
        !.stack = Append(@, [val   |-> as_u64_bitwise(vm_.registers[r_src_ind]),
                             ftype |-> vm_.reg_types[r_src_ind]]),
        !.ip = @ + 2]

\* 0x81 pop Rdest
op_pop(vm_, r_dest_ind) ==
    IF vm_.stack = <<>> THEN abort(vm_)
    ELSE LET v == vm_.stack[Len(vm_.stack)]
         IN  [vm_ EXCEPT
                !.stack = SubSeq(@, 1, Len(@) - 1),
                !.registers[r_dest_ind] = from_u64_bits(v.val, v.ftype),
                !.reg_types[r_dest_ind] = v.ftype,
                !.ip = @ + 2]

\* 0xFF halt
op_halt(vm_) == [vm_ EXCEPT !.running = FALSE]

(***************************************************************************)
(* The collection cycle of VM::run (vm.rs).                                *)
(***************************************************************************)
\* VM::gc_gen_reg_set
gc_gen_reg_set(vm_) ==
    {as_u64(vm_.registers[idx]) :
        idx \in {i \in 0..(NumRegs - 1) : vm_.reg_types[i] = "address"}}

\* VM::fetch_dstack_refs: for i in 0..(len.saturating_sub(1))
fetch_dstack_refs(vm_) ==
    LET len == Len(vm_.stack)
    IN  {vm_.stack[i + 1].val :
            i \in {j \in 0..(saturating_sub(len, 1) - 1) :
                        vm_.stack[j + 1].ftype = "address"}}

\* gc_finish_cleanup forgetting the edges that leave a block it frees
RECURSIVE gc_finish_cleanup_drops_edges(_, _, _)
gc_finish_cleanup_drops_edges(vm_, ptrs, freed) ==
    IF ptrs = <<>> THEN [vm |-> vm_, freed |-> freed]
    ELSE LET ptr == Head(ptrs)
             r   == free(vm_.heap, ptr)
         IN  IF r.ok
             THEN gc_finish_cleanup_drops_edges(
                    [vm_ EXCEPT !.heap =
                        [r.heap EXCEPT !.saved_refs = {e \in @ : e[1] # ptr}]],
                    Tail(ptrs), freed \cup {ptr})
             ELSE gc_finish_cleanup_drops_edges(
                    [vm_ EXCEPT !.gc.main_refs = @ \ {ptr}], Tail(ptrs), freed)

\* VM::gc_finish_cleanup; freed collects the pointers heap.free accepted
RECURSIVE gc_finish_cleanup(_, _, _)
gc_finish_cleanup(vm_, ptrs, freed) ==
    IF ptrs = <<>> THEN [vm |-> vm_, freed |-> freed]
    ELSE CHOOSE done \in
            {IF r.ok
             THEN gc_finish_cleanup([vm_ EXCEPT !.heap = r.heap], Tail(ptrs),
                                    freed \cup {Head(ptrs)})
             ELSE gc_finish_cleanup([vm_ EXCEPT !.gc.main_refs = @ \ {Head(ptrs)}],
                                    Tail(ptrs), freed) :
                r \in {free(vm_.heap, Head(ptrs))}} : TRUE

\* the branch since_cleanup >= 250 of VM::run; swept is what mark and sweep
\* leave, done what gc_finish_cleanup leaves after them
gc_cycle(vm_) ==
    LET regs_hashset   == gc_gen_reg_set(vm_)
        dstack_hashset == fetch_dstack_refs(vm_)
        final_hset     == regs_hashset \cup dstack_hashset
        t2             == vm_.heap.saved_refs
    IN  CHOOSE c \in
            UNION {{[vm |-> done.vm, addrs |-> swept.res, freed |-> done.freed] :
                        done \in {gc_finish_cleanup([vm_ EXCEPT !.gc = swept.gc],
                                                    swept.res, {})}} :
                    swept \in {sweep(mark(vm_.gc, final_hset, t2))}} : TRUE

(***************************************************************************)
(* VM::run. One step is one turn of the loop: the handler of the opcode at *)
(* ip, then the collection cycle when since_cleanup has reached 250. after *)
(* is the VM the handler leaves, executed the record of the instruction,   *)
(* h the blocks and stored pointers after it.                              *)
(*                                                                         *)
(* cycle tells whether the step ran a collection and, when it did, the VM  *)
(* just before it (pre), the pointers sweep returned (addrs) and those     *)
(* heap.free accepted (freed).                                             *)
(***************************************************************************)
Fetch == vm.running /\ ~vm.panic /\ vm.ip < vm.memory_capacity

Turn(after, executed, h) ==
    /\ last' = executed
    /\ hist' = h
    /\ UNCHANGED <<heap_size, asm>>
    /\ \E left \in {after} :
        IF left.panic
        THEN /\ vm' = left
             /\ cycle' = NoCycle
             /\ UNCHANGED since_cleanup
        ELSE IF since_cleanup >= GcPeriod
             THEN \E g \in {gc_cycle(left)} :
                     /\ vm' = g.vm
                     /\ cycle' = [ran |-> TRUE, pre |-> left,
                                  addrs |-> g.addrs, freed |-> g.freed]
                     /\ since_cleanup' = 0
             ELSE /\ vm' = left
                  /\ cycle' = NoCycle
                  /\ since_cleanup' = since_cleanup + 1

Instr(op) == [NoOp EXCEPT !.op = op, !.ip = vm.ip]

\* the panic after the loop of VM::run
InstrOverflow ==
    /\ vm.running /\ ~vm.panic /\ vm.ip >= vm.memory_capacity
    /\ vm' = abort(vm)
    /\ last' = Instr("overflow")
    /\ cycle' = NoCycle
    /\ UNCHANGED <<heap_size, since_cleanup, hist, asm>>

(***************************************************************************)
(* The VM running a program of heap, register and stack instructions. The  *)
(* run starts after c instructions `uload r0 0`, which leave the VM as     *)
(* constructed but for ip and the counter of VM::run; it is followed until *)
(* the first collection cycle.                                             *)
(***************************************************************************)
VmInit ==
    /\ heap_size = VmHeap
    /\ since_cleanup \in (GcPeriod - GcWindow)..GcPeriod
    /\ vm = [VMNew(MemCap, heap_size, DEFAULT_RECURSION_LIMIT) EXCEPT !.ip = 10 * since_cleanup]
    /\ last = NoOp
    /\ cycle = NoCycle
    /\ hist = NoHist
    /\ asm = NoAsm

\* the first collection cycle has not run: it leaves the counter at 0
BeforeCycle == since_cleanup > 0

starts_of(blocks) == {blocks[i].start_byte : i \in 1..Len(blocks)}

\* the allocated block Heap::write picks for ptr and len bytes
block_written(h, ptr, len) ==
    h.allocated[MinOf({i \in 1..Len(h.allocated) :
                            write_fits(h.allocated[i], ptr, len)})].start_byte

overlaps(s1, s2) == s1 < s2 + WordBytes /\ s2 < s1 + WordBytes

Uload(r, value) ==
    /\ Fetch /\ BeforeCycle
    /\ Turn(op_uload(vm, r, value), Instr("uload"), hist)

Utop(rd, rs) ==
    /\ Fetch /\ BeforeCycle
    /\ Turn(op_utop(vm, rd, rs), Instr("utop"), hist)

Alloc(rd, size_bytes) ==
    /\ Fetch /\ BeforeCycle
    /\ Turn(op_alloc(vm, rd, size_bytes), Instr("alloc"), hist)

Allocr(rd, rs) ==
    /\ Fetch /\ BeforeCycle
    /\ Turn(op_allocr(vm, rd, rs), Instr("allocr"), hist)

AllocrNogc(rd, rs) ==
    LET r == alloc(vm.heap, as_u64(vm.registers[rs]))
    IN  /\ Fetch /\ BeforeCycle
        /\ Turn(op_allocr_nogc(vm, rd, rs), Instr("allocr_nogc"),
                IF r.ok THEN [hist EXCEPT !.nogc = @ \cup {r.ptr}] ELSE hist)

Free(r) ==
    LET ptr == as_u64(vm.registers[r])
        ok  == free(vm.heap, ptr).ok
    IN  /\ Fetch /\ BeforeCycle
        /\ Turn(op_free(vm, r), Instr("free"),
                IF ok
                THEN [hist EXCEPT
                        !.nogc   = @ \ {ptr},
                        !.stores = {e \in @ : e[1] # ptr /\ e[3] # ptr}]
                ELSE hist)

Store(rd, rs) ==
    LET ptr  == as_u64(vm.registers[rd])
        val  == as_u64(vm.registers[rs])
        ok   == write(vm.heap, ptr, to_be_bytes(val)).ok
        kept == {e \in hist.stores : ~overlaps(e[2], ptr)}
    IN  /\ Fetch /\ BeforeCycle
        /\ Turn(op_store(vm, rd, rs), Instr("store"),
                IF ~ok THEN hist
                ELSE IF vm.reg_types[rs] = "address"
                THEN [hist EXCEPT !.stores = kept \cup
                        {<<block_written(vm.heap, ptr, WordBytes), ptr, val>>}]
                ELSE [hist EXCEPT !.stores = kept])

Push(r) ==
    /\ Fetch /\ BeforeCycle
    /\ Turn(op_push(vm, r), Instr("push"), hist)

Pop(r) ==
    /\ Fetch /\ BeforeCycle
    /\ Turn(op_pop(vm, r), Instr("pop"), hist)

Halt ==
    /\ Fetch /\ BeforeCycle
    /\ Turn(op_halt(vm), Instr("halt"), hist)

Next ==
    \/ \E r \in Regs, value \in Imms : Uload(r, value)
    \/ \E rd \in Regs, rs \in Regs : Utop(rd, rs)
    \/ \E rd \in Regs, n \in AllocSizes : Alloc(rd, n)
    \/ \E rd \in Regs, rs \in Regs : Allocr(rd, rs)
    \/ \E rd \in Regs, rs \in Regs : AllocrNogc(rd, rs)
    \/ \E r \in Regs : Free(r)
    \/ \E rd \in Regs, rs \in Regs : Store(rd, rs)
    \/ \E r \in Regs : Push(r)
    \/ \E r \in Regs : Pop(r)
    \/ Halt
    \/ InstrOverflow

Spec == VmInit /\ [][Next]_vars

(***************************************************************************)
(* The same VM running a program of alloc, store and uload only: no stack, *)
(* no manual free.                                                         *)
(***************************************************************************)
RefsInit ==
    /\ heap_size = VmHeap
    /\ since_cleanup \in (GcPeriod - RefsWindow)..GcPeriod
    /\ vm = [VMNew(MemCap, heap_size, DEFAULT_RECURSION_LIMIT) EXCEPT !.ip = 10 * since_cleanup]
    /\ last = NoOp
    /\ cycle = NoCycle
    /\ hist = NoHist
    /\ asm = NoAsm

RefsNext ==
    \/ \E r \in Regs, value \in Imms : Uload(r, value)
    \/ \E rd \in Regs, n \in AllocSizes : Alloc(rd, n)
    \/ \E rd \in Regs, rs \in Regs : Store(rd, rs)
    \/ InstrOverflow

SpecRefs == RefsInit /\ [][RefsNext]_vars

(***************************************************************************)
(* Integer division and remainder (registers.rs, vm.rs).                   *)
(***************************************************************************)
\* Rust's / and % on integers truncate towards zero
abs(a) == IF a < 0 THEN 0 - a ELSE a

trunc_div(a, b) ==
    IF (a < 0) = (b < 0) THEN abs(a) \div abs(b) ELSE 0 - (abs(a) \div abs(b))

trunc_rem(a, b) == a - b * trunc_div(a, b)

\* impl Div for Register: the variants must match, and the integer
\* division panics on a zero divisor
reg_div(a, b) ==
    IF a.tag # b.tag \/ b.val = 0
    THEN [panic |-> TRUE, reg |-> a]
    ELSE [panic |-> FALSE, reg |-> Register(a.tag, trunc_div(a.val, b.val))]

\* impl Rem for Register
reg_rem(a, b) ==
    IF a.tag # b.tag \/ b.val = 0
    THEN [panic |-> TRUE, reg |-> a]
    ELSE [panic |-> FALSE, reg |-> Register(a.tag, trunc_rem(a.val, b.val))]

\* 0x14 udiv Rout R1 R2
op_udiv(vm_, reg_out, reg_1, reg_2) ==
    LET v1 == IF vm_.registers[reg_2] = Register("uint", 0)
              THEN raise(vm_, "ZeroDivision") ELSE vm_
        q  == reg_div(vm_.registers[reg_1], vm_.registers[reg_2])
    IN  IF q.panic THEN abort(v1)
        ELSE [v1 EXCEPT !.registers[reg_out] = q.reg,
                        !.reg_types[reg_out] = "uint64",
                        !.ip = @ + 4]

\* 0x15 urem Rdest R1 R2
op_urem(vm_, reg_dest, reg_1, reg_2) ==
    LET q == reg_rem(vm_.registers[reg_1], vm_.registers[reg_2])
    IN  IF q.panic THEN abort(vm_)
        ELSE [vm_ EXCEPT !.registers[reg_dest] = q.reg,
                         !.reg_types[reg_dest] = "uint64",
                         !.ip = @ + 4]

\* 0x24 idiv Rdest R1 R2
op_idiv(vm_, dest_r_ind, reg_1, reg_2) ==
    IF vm_.registers[reg_2] = Register("int", 0) THEN abort(vm_)
    ELSE LET q == reg_div(vm_.registers[reg_1], vm_.registers[reg_2])
         IN  IF q.panic THEN abort(vm_)
             ELSE [vm_ EXCEPT !.registers[dest_r_ind] = q.reg,
                              !.reg_types[dest_r_ind] = "int64",
                              !.ip = @ + 4]

\* 0x25 irem Rdest R1 R2
op_irem(vm_, dest_r_ind, reg_1, reg_2) ==
    IF vm_.registers[reg_2] = Register("int", 0) THEN abort(vm_)
    ELSE LET q == reg_rem(vm_.registers[reg_1], vm_.registers[reg_2])
         IN  IF q.panic THEN abort(vm_)
             ELSE [vm_ EXCEPT !.registers[dest_r_ind] = q.reg,
                              !.reg_types[dest_r_ind] = "int64",
                              !.ip = @ + 4]

\* the match on exc_n of op_jexc
exception_of(exc_n) ==
    CASE exc_n = 1 -> "ZeroDivision"
      [] exc_n = 2 -> "HeapAllocationFault"
      [] exc_n = 3 -> "HeapFreeFault"
      [] exc_n = 4 -> "HeapWriteFault"
      [] exc_n = 5 -> "HeapReadFault"
      [] exc_n = 6 -> "NegativeSqrt"
      [] OTHER     -> "unknown"

\* op_jexc removing the latest occurrence instead of the earliest
op_jexc_latest(vm_, exc_n, tojump) ==
    LET exception == exception_of(exc_n)
        found == {ind \in 1..Len(vm_.exceptions_active) :
                        vm_.exceptions_active[ind] = exception}
    IN  IF exception = "unknown" THEN abort(vm_)
        ELSE IF found # {}
        THEN [vm_ EXCEPT !.ip = tojump,
                         !.exceptions_active =
                            RemoveAt(@, CHOOSE i \in found : \A j \in found : j <= i)]
        ELSE [vm_ EXCEPT !.ip = @ + 17]

\* 0x46 jexc exception_num addr
op_jexc(vm_, exc_n, tojump) ==
    LET exception == exception_of(exc_n)
        found == {ind \in 1..Len(vm_.exceptions_active) :
                        vm_.exceptions_active[ind] = exception}
    IN  IF exception = "unknown" THEN abort(vm_)
        ELSE IF found # {}
        THEN [vm_ EXCEPT !.ip = tojump,
                         !.exceptions_active = RemoveAt(@, MinOf(found))]
        ELSE [vm_ EXCEPT !.ip = @ + 17]

(***************************************************************************)
(* The VM running a program of loads, divisions, remainders, free and      *)
(* jexc, after one `uload r0 0`. In last, zero tells that the divisor      *)
(* register held a zero of the instruction's type, ok that a jexc found    *)
(* its exception in the queue, ptr the handler address.                    *)
(***************************************************************************)
ArithInit ==
    /\ heap_size = VmHeap
    /\ since_cleanup = 1
    /\ vm = [VMNew(ArithMem, heap_size, DEFAULT_RECURSION_LIMIT) EXCEPT !.ip = 10]
    /\ last = NoOp
    /\ cycle = NoCycle
    /\ hist = NoHist
    /\ asm = NoAsm

Iload(r, value) ==
    /\ Fetch /\ BeforeCycle
    /\ Turn(op_iload(vm, r, value), Instr("iload"), hist)

Udiv(rd, r1, r2) ==
    /\ Fetch /\ BeforeCycle
    /\ Turn(op_udiv(vm, rd, r1, r2),
            [Instr("udiv") EXCEPT !.zero = (vm.registers[r2] = Register("uint", 0))],
            hist)

Urem(rd, r1, r2) ==
    /\ Fetch /\ BeforeCycle
    /\ Turn(op_urem(vm, rd, r1, r2),
            [Instr("urem") EXCEPT !.zero = (vm.registers[r2] = Register("uint", 0))],
            hist)

Idiv(rd, r1, r2) ==
    /\ Fetch /\ BeforeCycle
    /\ Turn(op_idiv(vm, rd, r1, r2),
            [Instr("idiv") EXCEPT !.zero = (vm.registers[r2] = Register("int", 0))],
            hist)

Irem(rd, r1, r2) ==
    /\ Fetch /\ BeforeCycle
    /\ Turn(op_irem(vm, rd, r1, r2),
            [Instr("irem") EXCEPT !.zero = (vm.registers[r2] = Register("int", 0))],
            hist)

Jexc(exc_n, tojump) ==
    /\ Fetch /\ BeforeCycle
    /\ Turn(op_jexc(vm, exc_n, tojump),
            [Instr("jexc") EXCEPT
                !.n = exc_n, !.ptr = tojump,
                !.ok = \E ind \in 1..Len(vm.exceptions_active) :
                            vm.exceptions_active[ind] = exception_of(exc_n)],
            hist)

\* the handler address of a jexc lies past the jexc itself
ArithNext ==
    \/ \E r \in Regs, value \in UImms : Uload(r, value)
    \/ \E r \in Regs, value \in IImms : Iload(r, value)
    \/ \E rd \in Regs, r1 \in Regs, r2 \in Regs : Udiv(rd, r1, r2)
    \/ \E rd \in Regs, r1 \in Regs, r2 \in Regs : Urem(rd, r1, r2)
    \/ \E rd \in Regs, r1 \in Regs, r2 \in Regs : Idiv(rd, r1, r2)
    \/ \E rd \in Regs, r1 \in Regs, r2 \in Regs : Irem(rd, r1, r2)
    \/ \E r \in Regs : Free(r)
    \/ \E exc_n \in ExcNums, k \in JumpSkips : Jexc(exc_n, vm.ip + 17 + k)
    \/ InstrOverflow

SpecArith == ArithInit /\ [][ArithNext]_vars

(***************************************************************************)
(* Floating point (vm.rs, registers.rs). The payload of a float register   *)
(* is an f64 of the form num^(1/2^root), num an integer, or NaN: the       *)
(* values fload of an integer and repeated square roots produce. With      *)
(* root > 0, num is positive and not a perfect square.                     *)
(***************************************************************************)
f64(n) == [num |-> n, root |-> 0, nan |-> FALSE]

NaN == [num |-> 0, root |-> 0, nan |-> TRUE]

isqrt(n) == CHOOSE r \in 0..n : r * r <= n /\ n < (r + 1) * (r + 1)

\* f64::sqrt
sqrt_f64(x) ==
    IF x.nan \/ x.num < 0 THEN NaN
    ELSE IF isqrt(x.num) * isqrt(x.num) = x.num
    THEN [x EXCEPT !.num = isqrt(x.num)]
    ELSE [x EXCEPT !.root = @ + 1]

\* Register::as_f64
as_f64(r) == IF r.tag = "float" THEN r.val ELSE f64(r.val)

\* `reg < Register::float(0.0)`: partial_cmp is None on another variant and
\* on NaN
lt_float_zero(r) == r.tag = "float" /\ ~r.val.nan /\ r.val.num < 0

\* 0x30 fload Rdest value
op_fload(vm_, dest_r_ind, float_val) ==
    [vm_ EXCEPT !.registers[dest_r_ind] = Register("float", float_val),
                !.reg_types[dest_r_ind] = "float64",
                !.ip = @ + 10]

\* op_fsqrt without its check of the sign
op_fsqrt_unchecked(vm_, reg_dest_ind, reg_src_ind) ==
    LET res == sqrt_f64(as_f64(vm_.registers[reg_src_ind]))
    IN  [vm_ EXCEPT !.registers[reg_dest_ind] = Register("float", res),
                    !.reg_types[reg_dest_ind] = "float64",
                    !.flags[2] = IF ~res.nan /\ res.num = 0 THEN 1 ELSE 0,
                    !.ip = @ + 3]

\* 0x3a fsqrt Rdest Rsrc; flags[1] of the code, zf, is flags[2] here
op_fsqrt(vm_, reg_dest_ind, reg_src_ind) ==
    IF lt_float_zero(vm_.registers[reg_src_ind])
    THEN [raise(vm_, "NegativeSqrt") EXCEPT !.ip = @ + 3]
    ELSE LET res == sqrt_f64(as_f64(vm_.registers[reg_src_ind]))
         IN  [vm_ EXCEPT !.registers[reg_dest_ind] = Register("float", res),
                         !.reg_types[reg_dest_ind] = "float64",
                         !.flags[2] = IF ~res.nan /\ res.num = 0 THEN 1 ELSE 0,
                         !.ip = @ + 3]

(***************************************************************************)
(* The VM running a program of fload, iload and fsqrt, after one           *)
(* `uload r0 0`. In last, n is the destination register of an fsqrt and    *)
(* zero tells that its source held a float below 0.                        *)
(***************************************************************************)
FloatInit ==
    /\ heap_size = VmHeap
    /\ since_cleanup = 1
    /\ vm = [VMNew(FloatMem, heap_size, DEFAULT_RECURSION_LIMIT) EXCEPT !.ip = 10]
    /\ last = NoOp
    /\ cycle = NoCycle
    /\ hist = NoHist
    /\ asm = NoAsm

Fload(r, value) ==
    /\ Fetch /\ BeforeCycle
    /\ Turn(op_fload(vm, r, f64(value)), Instr("fload"), hist)

Fsqrt(rd, rs) ==
    /\ Fetch /\ BeforeCycle
    /\ Turn(op_fsqrt(vm, rd, rs),
            [Instr("fsqrt") EXCEPT !.n = rd,
                                   !.zero = lt_float_zero(vm.registers[rs])],
            hist)

FloatNext ==
    \/ \E r \in Regs, value \in FImms : Fload(r, value)
    \/ \E r \in Regs, value \in IImms : Iload(r, value)
    \/ \E rd \in Regs, rs \in Regs : Fsqrt(rd, rs)
    \/ InstrOverflow

SpecFloat == FloatInit /\ [][FloatNext]_vars

(***************************************************************************)
(* The VM running a program that raises exceptions (free of a pointer that *)
(* is no block, fsqrt of a negative float) and catches them with jexc,     *)
(* after one `uload r0 0`.                                                 *)
(***************************************************************************)
ExcInit ==
    /\ heap_size = VmHeap
    /\ since_cleanup = 1
    /\ vm = [VMNew(ExcMem, heap_size, DEFAULT_RECURSION_LIMIT) EXCEPT !.ip = 10]
    /\ last = NoOp
    /\ cycle = NoCycle
    /\ hist = NoHist
    /\ asm = NoAsm

ExcNext ==
    \/ \E r \in Regs, value \in FImms : Fload(r, value)
    \/ \E rd \in Regs, rs \in Regs : Fsqrt(rd, rs)
    \/ \E r \in Regs : Free(r)
    \/ \E exc_n \in ExcCodes, k \in JumpSkips : Jexc(exc_n, vm.ip + 17 + k)
    \/ InstrOverflow

SpecExc == ExcInit /\ [][ExcNext]_vars

(***************************************************************************)
(* Calls and returns (func_ops.rs, callstack.rs). call_stack is the        *)
(* sequence of the return addresses of its frames; func_table is indexed   *)
(* from 0 in the code, from 1 here.                                        *)
(***************************************************************************)
\* Vec::get(ind)
has_func(vm_, ind) == ind >= 0 /\ ind < Len(vm_.func_table)

\* op_call pushing the address of the call itself
op_call_pushes_ip(vm_, ind) ==
    IF Len(vm_.call_stack) + 1 > vm_.rec_depth_max THEN abort(vm_)
    ELSE IF ~has_func(vm_, ind) THEN abort(vm_)
    ELSE [vm_ EXCEPT !.call_stack = Append(@, vm_.ip),
                     !.ip = vm_.func_table[ind + 1]]

\* 0x90 call ind
op_call(vm_, ind) ==
    IF Len(vm_.call_stack) + 1 > vm_.rec_depth_max THEN abort(vm_)
    ELSE IF ~has_func(vm_, ind) THEN abort(vm_)
    ELSE [vm_ EXCEPT !.call_stack = Append(@, vm_.ip + 9),
                     !.ip = vm_.func_table[ind + 1]]

\* 0x91 ret
op_ret(vm_) ==
    IF vm_.call_stack = <<>> THEN abort(vm_)
    ELSE [vm_ EXCEPT !.ip = vm_.call_stack[Len(vm_.call_stack)],
                     !.call_stack = SubSeq(@, 1, Len(@) - 1)]

\* 0x92 fnstind Rdest ind
op_fnstind(vm_, r_dest_ind, ind) ==
    [vm_ EXCEPT !.registers[r_dest_ind] = from_u64_bits(ind, "uint64"),
                !.reg_types[r_dest_ind] = "uint64",
                !.ip = @ + 10]

\* 0x93 callr Rsrc
op_callr(vm_, r_src_ind) ==
    LET ind == as_u64(vm_.registers[r_src_ind])
    IN  IF ~has_func(vm_, ind) THEN abort(vm_)
        ELSE [vm_ EXCEPT !.call_stack = Append(@, vm_.ip + 2),
                         !.ip = vm_.func_table[ind + 1]]

(***************************************************************************)
(* The VM running a program of call, ret, fnstind and callr, loaded with a *)
(* function table of two entries and entry point 0, after the `uload r0 0` *)
(* at the entry point. The run can come back to an address: hist.code      *)
(* keeps what it fetched there, and it fetches the same again.             *)
(***************************************************************************)
Code(op, a, b) == [op |-> op, a |-> a, b |-> b]

Fetched(instr) == \A c \in hist.code : c[1] = vm.ip => c[2] = instr

Keep(instr) == [hist EXCEPT !.code = @ \cup {<<vm.ip, instr>>}]

CallInit ==
    /\ heap_size = VmHeap
    /\ since_cleanup = 1
    /\ \E f0 \in FuncAddrs, f1 \in FuncAddrs :
        vm = [VMNew(CallMem, heap_size, RecDepth) EXCEPT
                !.ip = 10, !.func_table = <<f0, f1>>]
    /\ last = NoOp
    /\ cycle = NoCycle
    /\ hist = [NoHist EXCEPT !.code = {<<0, Code("uload", 0, 0)>>}]
    /\ asm = NoAsm

CallRun == Fetch /\ BeforeCycle /\ since_cleanup <= CallSteps

\* a frame as the call at vm.ip leaves it, its instruction isize bytes long
Framed(h, after, isize) ==
    IF after.panic THEN h
    ELSE [h EXCEPT !.frames = Append(@, [ret   |-> vm.ip + isize,
                                         below |-> vm.call_stack])]

Call(ind) ==
    /\ CallRun /\ Fetched(Code("call", ind, 0))
    /\ Turn(op_call(vm, ind), [Instr("call") EXCEPT !.n = ind],
            Framed(Keep(Code("call", ind, 0)), op_call(vm, ind), 9))

Ret ==
    /\ CallRun /\ Fetched(Code("ret", 0, 0))
    /\ Turn(op_ret(vm), Instr("ret"),
            [Keep(Code("ret", 0, 0)) EXCEPT
                !.frames = IF @ = <<>> THEN @ ELSE SubSeq(@, 1, Len(@) - 1)])

Fnstind(r, ind) ==
    /\ CallRun /\ Fetched(Code("fnstind", r, ind))
    /\ Turn(op_fnstind(vm, r, ind), Instr("fnstind"), Keep(Code("fnstind", r, ind)))

Callr(r) ==
    /\ CallRun /\ Fetched(Code("callr", r, 0))
    /\ Turn(op_callr(vm, r), [Instr("callr") EXCEPT !.n = r],
            Framed(Keep(Code("callr", r, 0)), op_callr(vm, r), 2))

CallNext ==
    \/ \E ind \in FuncInds : Call(ind)
    \/ Ret
    \/ \E r \in CallRegs, ind \in FuncInds : Fnstind(r, ind)
    \/ \E r \in CallRegs : Callr(r)
    \/ InstrOverflow

SpecCall == CallInit /\ [][CallNext]_vars

(***************************************************************************)
(* pushall and popall (stack.rs).                                          *)
(***************************************************************************)
\* the values a Rust range lo..hi yields, in order: none when hi <= lo
range(lo, hi) == [k \in 1..(IF hi > lo THEN hi - lo ELSE 0) |-> lo + k - 1]

\* the body of the loop of op_pushall, for the registers is[k..]
RECURSIVE push_each(_, _, _)
push_each(vm_, is, k) ==
    IF k > Len(is) THEN vm_
    ELSE push_each(
            [vm_ EXCEPT !.stack =
                Append(@, [val   |-> as_u64_bitwise(vm_.registers[is[k]]),
                           ftype |-> vm_.reg_types[is[k]]])],
            is, k + 1)

\* 0x82 pushall
op_pushall(vm_) ==
    [push_each(vm_, range(0, saturating_sub(NumRegs, 1)), 1) EXCEPT !.ip = @ + 1]

\* the body of the loop of op_popall, for the registers is[k..]
RECURSIVE pop_each(_, _, _)
pop_each(vm_, is, k) ==
    IF k > Len(is) THEN vm_
    ELSE IF vm_.stack = <<>> THEN abort(vm_)
    ELSE LET v == vm_.stack[Len(vm_.stack)]
         IN  pop_each(
                [vm_ EXCEPT
                    !.stack = SubSeq(@, 1, Len(@) - 1),
                    !.registers[is[k]] = from_u64_bits(v.val, v.ftype),
                    !.reg_types[is[k]] = v.ftype],
                is, k + 1)

\* 0x83 popall
op_popall(vm_) ==
    LET v == pop_each(vm_, range(saturating_sub(NumRegs, 1), 0), 1)
    IN  IF v.panic THEN v ELSE [v EXCEPT !.ip = @ + 1]

(***************************************************************************)
(* The VM running a program of loads, divisions and operand-stack          *)
(* instructions, after one `uload r0 0`.                                   *)
(***************************************************************************)
StackInit ==
    /\ heap_size = VmHeap
    /\ since_cleanup = 1
    /\ vm = [VMNew(StackMem, heap_size, DEFAULT_RECURSION_LIMIT) EXCEPT !.ip = 10]
    /\ last = NoOp
    /\ cycle = NoCycle
    /\ hist = NoHist
    /\ asm = NoAsm

Pushall ==
    /\ Fetch /\ BeforeCycle
    /\ Turn(op_pushall(vm), Instr("pushall"), hist)

Popall ==
    /\ Fetch /\ BeforeCycle
    /\ Turn(op_popall(vm), Instr("popall"), hist)

\* programs of at most StackSteps instructions after the first
StackRun == since_cleanup <= StackSteps

StackNext ==
    \/ StackRun /\ \E r \in Regs, value \in UImms : Uload(r, value)
    \/ StackRun /\ \E r \in Regs, value \in IImms : Iload(r, value)
    \/ StackRun /\ \E rd \in Regs, r1 \in Regs, r2 \in Regs : Udiv(rd, r1, r2)
    \/ StackRun /\ \E r \in Regs : Push(r)
    \/ StackRun /\ \E r \in Regs : Pop(r)
    \/ StackRun /\ Pushall
    \/ StackRun /\ Popall
    \/ StackRun /\ Ret
    \/ InstrOverflow

SpecStack == StackInit /\ [][StackNext]_vars

(***************************************************************************)
(* The stores to the data segment (vm.rs). A record of the data segment is *)
(* one byte of type and flags, eight bytes of length and the payload.      *)
(***************************************************************************)
CONST_MASK == 16

\* byte & CONST_MASK != 0
has_const(byte) == (byte \div CONST_MASK) % 2 = 1

\* an index self.memory[a] accepts; below data_base lies the code
in_memory(vm_, a) == a \in DOMAIN vm_.memory

\* Register::as_i64, of the values these runs hold
as_i64(r) ==
    CASE r.tag \in {"uint", "StrAddr", "address", "ds_addr", "int"} -> r.val

\* the match on reg_types[r_src_ind]: the eight bytes to store
reg_bytes(vm_, r_src_ind) ==
    CASE vm_.reg_types[r_src_ind] \in {"uint64", "StrAddr", "address", "ds_addr"} ->
            to_be_bytes(as_u64(vm_.registers[r_src_ind]))
      [] vm_.reg_types[r_src_ind] = "int64" ->
            to_be_bytes(as_i64(vm_.registers[r_src_ind]))

\* for i in 0..8 { self.memory[abs_addr + i] = val[i]; } from byte k on: an
\* index past the end of memory panics, after the bytes before it are written
RECURSIVE store_bytes(_, _, _, _)
store_bytes(vm_, abs_addr, val, k) ==
    IF k > Len(val) THEN vm_
    ELSE IF ~in_memory(vm_, abs_addr + k - 1) THEN abort(vm_)
    ELSE store_bytes([vm_ EXCEPT !.memory[abs_addr + k - 1] = val[k]],
                     abs_addr, val, k + 1)

ds_save_unchecked(vm_, r_src_ind, rel_addr, abs_addr, isize) ==
    IF ~in_memory(vm_, vm_.data_base + rel_addr) THEN abort(vm_)
    ELSE LET w == store_bytes(vm_, abs_addr, reg_bytes(vm_, r_src_ind), 1)
         IN  IF w.panic THEN w ELSE [w EXCEPT !.ip = @ + isize]

\* the part op_dssave and op_dsrsave share: the test of the const bit of the
\* byte at data_base + rel_addr, the store and the instruction size
ds_save(vm_, r_src_ind, rel_addr, abs_addr, isize) ==
    IF ~in_memory(vm_, vm_.data_base + rel_addr) THEN abort(vm_)
    ELSE IF has_const(vm_.memory[vm_.data_base + rel_addr]) THEN abort(vm_)
    ELSE LET w == store_bytes(vm_, abs_addr, reg_bytes(vm_, r_src_ind), 1)
         IN  IF w.panic THEN w ELSE [w EXCEPT !.ip = @ + isize]

\* 0x72 dssave Rsrc rel_addr offset
op_dssave(vm_, r_src_ind, rel_addr, offset) ==
    ds_save(vm_, r_src_ind, rel_addr,
            vm_.data_base + rel_addr + offset + 1 + 8, 18)

\* 0x73 dsrsave Rsrc Roffset rel_addr
op_dsrsave(vm_, r_src_ind, r_offset_ind, rel_addr) ==
    ds_save(vm_, r_src_ind, rel_addr,
            vm_.data_base + rel_addr + as_u64(vm_.registers[r_offset_ind]) + 1 + 8,
            11)

(***************************************************************************)
(* The VM running an image whose data segment holds two uint records of    *)
(* value 5, each declared const or not, after one `uload r0 0`. The code   *)
(* segment is DsBase bytes long and memory ends with the data segment.     *)
(***************************************************************************)
UINT_TYPE == 1

\* a scalar record as the assembler emits it
ds_record(const, value) ==
    <<IF const THEN UINT_TYPE + CONST_MASK ELSE UINT_TYPE>>
        \o to_be_bytes(WordBytes) \o to_be_bytes(value)

RecordBytes == 1 + WordBytes + WordBytes

\* the relative addresses of the two records
DsRecords == {0, RecordBytes}

DsInit ==
    /\ heap_size = VmHeap
    /\ since_cleanup = 1
    /\ \E c0 \in BOOLEAN, c1 \in BOOLEAN :
        LET image == ds_record(c0, DsValue) \o ds_record(c1, DsValue)
        IN  vm = [VMNew(DsBase + Len(image), heap_size, DEFAULT_RECURSION_LIMIT) EXCEPT
                    !.ip = 10,
                    !.data_base = DsBase,
                    !.data_size = Len(image),
                    !.memory = [a \in DsBase..(DsBase + Len(image) - 1) |->
                                    image[a - DsBase + 1]]]
    /\ last = NoOp
    /\ cycle = NoCycle
    /\ hist = NoHist
    /\ asm = NoAsm

\* the instruction at ip lies in the code segment
InCode(isize) == vm.ip + isize <= vm.data_base

Dssave(r, rel_addr, offset) ==
    /\ Fetch /\ BeforeCycle
    /\ Turn(op_dssave(vm, r, rel_addr, offset),
            [Instr("dssave") EXCEPT !.n = rel_addr], hist)

Dsrsave(r, r_offset, rel_addr) ==
    /\ Fetch /\ BeforeCycle
    /\ Turn(op_dsrsave(vm, r, r_offset, rel_addr),
            [Instr("dsrsave") EXCEPT !.n = rel_addr], hist)

DsNext ==
    \/ InCode(10) /\ \E r \in Regs, value \in UImms : Uload(r, value)
    \/ InCode(10) /\ \E r \in Regs, value \in IImms : Iload(r, value)
    \/ InCode(18) /\ \E r \in Regs, rel_addr \in DsRels, offset \in DsOffsets :
                        Dssave(r, rel_addr, offset)
    \/ InCode(11) /\ \E r \in Regs, r_offset \in Regs, rel_addr \in DsRels :
                        Dsrsave(r, r_offset, rel_addr)
    \/ InCode(1) /\ Halt

SpecDs == DsInit /\ [][DsNext]_vars

(***************************************************************************)
(* The VM running a program of `uload` instructions only, from the first   *)
(* instruction after one `uload r0 0` on: every instruction is 10 bytes    *)
(* long, so ip divided by 10 is the number of instructions executed.       *)
(***************************************************************************)
PeriodInit ==
    /\ heap_size = VmHeap
    /\ since_cleanup = 1
    /\ vm = [VMNew(MemCap, heap_size, DEFAULT_RECURSION_LIMIT) EXCEPT !.ip = 10]
    /\ last = NoOp
    /\ cycle = NoCycle
    /\ hist = NoHist
    /\ asm = NoAsm

PeriodNext ==
    \/ \E r \in Regs, value \in Imms : Uload(r, value)
    \/ InstrOverflow

SpecPeriod == PeriodInit /\ [][PeriodNext]_vars

(***************************************************************************)
(* The VM running a program of uload, alloc, free and store, after one     *)
(* `uload r0 0`, in a memory too small for the run to reach a collection   *)
(* cycle.                                                                  *)
(***************************************************************************)
StoreInit ==
    /\ heap_size = VmHeap
    /\ since_cleanup = 1
    /\ vm = [VMNew(StoreMem, heap_size, DEFAULT_RECURSION_LIMIT) EXCEPT !.ip = 10]
    /\ last = NoOp
    /\ cycle = NoCycle
    /\ hist = NoHist
    /\ asm = NoAsm

StoreNext ==
    \/ \E r \in Regs, value \in Imms : Uload(r, value)
    \/ \E rd \in Regs, n \in AllocSizes : Alloc(rd, n)
    \/ \E r \in Regs : Free(r)
    \/ \E rd \in Regs, rs \in Regs : Store(rd, rs)
    \/ InstrOverflow

SpecStore == StoreInit /\ [][StoreNext]_vars

(***************************************************************************)
(* nop and ncall (vm.rs), and the sizes of the assembler's instruction     *)
(* table (assembly.rs) for the instructions of the runs below.             *)
(***************************************************************************)
\* 0x02 nop
op_nop(vm_) == vm_

\* VM::ncall_println, of a register whose tag is not StrAddr: the value is
\* printed
ncall_println(vm_, src_r_num) ==
    CASE vm_.reg_types[src_r_num] # "StrAddr" -> [vm_ EXCEPT !.ip = @ + 4]

\* 0x01 ncall ncall_num Rsrc
op_ncall(vm_, ncall_num, src_r_num) ==
    IF ncall_num = 1 THEN ncall_println(vm_, src_r_num) ELSE vm_

\* voxasm_instr_table: LexTypes::Size
instr_size ==
    [halt |-> 1, ncall |-> 4, nop |-> 1, uload |-> 10, push |-> 2, pop |-> 2,
     free |-> 2]

(***************************************************************************)
(* The VM running a program of nop, ncall, uload, push, pop, free and      *)
(* halt, after one `uload r0 0`, for StepSteps turns of the loop of        *)
(* VM::run.                                                                *)
(***************************************************************************)
StepInit ==
    /\ heap_size = VmHeap
    /\ since_cleanup = 1
    /\ vm = [VMNew(StepMem, heap_size, DEFAULT_RECURSION_LIMIT) EXCEPT !.ip = 10]
    /\ last = NoOp
    /\ cycle = NoCycle
    /\ hist = NoHist
    /\ asm = NoAsm

StepRun == Fetch /\ since_cleanup <= StepSteps

\* no nop and no ncall was fetched at ip: the instructions that stay at
\* their address are fetched again in the next turn
Unfetched == \A c \in hist.code : c[1] # vm.ip

Nop ==
    /\ StepRun /\ Fetched(Code("nop", 0, 0))
    /\ Turn(op_nop(vm), Instr("nop"), Keep(Code("nop", 0, 0)))

Ncall(ncall_num, r) ==
    /\ StepRun /\ Fetched(Code("ncall", ncall_num, r))
    /\ Turn(op_ncall(vm, ncall_num, r), [Instr("ncall") EXCEPT !.n = ncall_num],
            Keep(Code("ncall", ncall_num, r)))

StepNext ==
    \/ Nop
    \/ \E ncall_num \in NcallNums, r \in Regs : Ncall(ncall_num, r)
    \/ StepRun /\ Unfetched /\ \E r \in Regs, value \in UImms : Uload(r, value)
    \/ StepRun /\ Unfetched /\ \E r \in Regs : Push(r)
    \/ StepRun /\ Unfetched /\ \E r \in Regs : Pop(r)
    \/ StepRun /\ Unfetched /\ \E r \in Regs : Free(r)
    \/ StepRun /\ Unfetched /\ Halt
    \/ InstrOverflow

SpecStep == StepInit /\ [][StepNext]_vars

(***************************************************************************)
(* The executable image (fileformats.rs). Integers are written big-endian; *)
(* the values of these runs are below 2^24, so all but the last three      *)
(* bytes of a u64 are 0.                                                   *)
(***************************************************************************)
MAGIC == <<86, 86, 69, 0>>        \* b"VVE\0"

FUNC_TABLE_START == 48            \* 0x30

MIN_VVE_VERSION == 3

\* u16::to_be_bytes
u16_to_be_bytes(val) == <<(val \div 256) % 256, val % 256>>

\* u16::from_be_bytes, u64::from_be_bytes
from_be_bytes(b) ==
    LET n == Len(b)
    IN  CASE \A i \in 1..(n - 3) : b[i] = 0 ->
            SumSeq([k \in 1..MinOf({3, n}) |->
                        b[n - k + 1] * Pow256(k - 1)])

\* bytes[lo..hi] of a Vec<u8>
slice(bytes, lo, hi) == SubSeq(bytes, lo + 1, hi)

\* VoxExeHeader::new
VoxExeHeaderNew(ver, entry, data_start, code_size, data_size, func_table) ==
    [magic          |-> MAGIC,
     version        |-> ver,
     entry_point    |-> entry,
     data_base      |-> data_start,
     code_size      |-> code_size,
     data_size      |-> data_size,
     func_table_len |-> Len(func_table),
     func_table     |-> func_table]

\* the entries of the function table as VoxExeHeader::write emits them
RECURSIVE func_table_bytes(_, _)
func_table_bytes(func_table, ind) ==
    IF ind >= Len(func_table) THEN <<>>
    ELSE to_be_bytes(ind) \o to_be_bytes(func_table[ind + 1])
            \o func_table_bytes(func_table, ind + 1)

header_fields(header) ==
    header.magic \o u16_to_be_bytes(header.version)
        \o to_be_bytes(header.entry_point) \o to_be_bytes(header.data_base)
        \o to_be_bytes(header.code_size) \o to_be_bytes(header.data_size)
        \o to_be_bytes(header.func_table_len)

VoxExeHeader_write_unpadded(header) ==
    header_fields(header) \o func_table_bytes(header.func_table, 0)

\* VoxExeHeader::write: the bytes of the file it leaves
VoxExeHeader_write(header) ==
    LET fields == header_fields(header)
        tofill == saturating_sub(FUNC_TABLE_START, Len(fields))
    IN  fields \o Zeros(tofill) \o func_table_bytes(header.func_table, 0)

\* VoxExeHeader::read_func_table: res[ind] = abs_addr for the entries from
\* byte i on; an index outside res or a slice outside the file panics
RECURSIVE read_entries(_, _, _, _)
read_entries(file_bytes, i, end, res) ==
    IF i >= end THEN [panic |-> FALSE, table |-> res]
    ELSE IF i + 16 > Len(file_bytes) THEN [panic |-> TRUE, table |-> res]
    ELSE LET ind      == from_be_bytes(slice(file_bytes, i, i + 8))
             abs_addr == from_be_bytes(slice(file_bytes, i + 8, i + 16))
         IN  IF ind >= Len(res) THEN [panic |-> TRUE, table |-> res]
             ELSE read_entries(file_bytes, i + 16, end,
                               [res EXCEPT ![ind + 1] = abs_addr])

read_func_table(file_bytes, start_ind, count_bytes) ==
    read_entries(file_bytes, start_ind, start_ind + count_bytes,
                 Zeros(count_bytes \div 16))

\* VoxExeHeader::load, of a file that exists: a wrong magic number is
\* reported on stderr and the load goes on; a version below minVersion
\* panics, as does a file shorter than the fields read
VoxExeHeader_load(bytes, minVersion) ==
    IF Len(bytes) < 46 THEN [panic |-> TRUE]
    ELSE IF from_be_bytes(slice(bytes, 4, 6)) < minVersion THEN [panic |-> TRUE]
    ELSE LET func_table_size == from_be_bytes(slice(bytes, 38, 46))
             t == read_func_table(bytes, FUNC_TABLE_START, func_table_size * 16)
         IN  IF t.panic THEN [panic |-> TRUE]
             ELSE [panic          |-> FALSE,
                   magic          |-> slice(bytes, 0, 4),
                   version        |-> from_be_bytes(slice(bytes, 4, 6)),
                   entry_point    |-> from_be_bytes(slice(bytes, 6, 14)),
                   data_base      |-> from_be_bytes(slice(bytes, 14, 22)),
                   code_size      |-> from_be_bytes(slice(bytes, 22, 30)),
                   data_size      |-> from_be_bytes(slice(bytes, 30, 38)),
                   func_table_len |-> func_table_size,
                   func_table     |-> t.table]

\* VM::load_vve: the header, then the bytes after the header and the
\* function table pushed to memory
load_vve(vm_, bytes, minVveVersion) ==
    LET fileHeader == VoxExeHeader_load(bytes, minVveVersion)
    IN  IF fileHeader.panic THEN abort(vm_)
        ELSE LET header_size == FUNC_TABLE_START + fileHeader.func_table_len * 16
                 body        == slice(bytes, header_size, Len(bytes))
             IN  IF header_size > Len(bytes) THEN abort(vm_)
                 ELSE [vm_ EXCEPT
                        !.ip = fileHeader.entry_point,
                        !.data_base = fileHeader.data_base,
                        !.data_size = fileHeader.data_size,
                        !.func_table = fileHeader.func_table,
                        !.memory = [a \in fileHeader.data_base..(Len(body) - 1) |->
                                        body[a + 1]]]

(***************************************************************************)
(* An image is written, a header and the one-instruction program `halt`,   *)
(* then loaded by a new VM, which runs it.                                 *)
(***************************************************************************)
HALT_OPCODE == 255

Headers ==
    {[VoxExeHeaderNew(ver, entry, data_start, 1, 0, func_table) EXCEPT !.magic = m] :
        m \in Magics, ver \in Versions, entry \in ImageAddrs,
        data_start \in {1}, func_table \in FuncTables}

ImageInit ==
    /\ heap_size = VmHeap
    /\ since_cleanup = 0
    /\ vm = VMNew(ImageMem, heap_size, DEFAULT_RECURSION_LIMIT)
    /\ last = NoOp
    /\ cycle = NoCycle
    /\ hist = NoHist
    /\ asm = NoAsm

WriteImage(header) ==
    /\ hist.file = <<>>
    /\ hist' = [hist EXCEPT !.header = header,
                            !.file = VoxExeHeader_write(header) \o <<HALT_OPCODE>>]
    /\ last' = [NoOp EXCEPT !.op = "write"]
    /\ UNCHANGED <<heap_size, vm, since_cleanup, cycle, asm>>

LoadVve ==
    /\ last.op = "write"
    /\ vm' = load_vve(vm, hist.file, MIN_VVE_VERSION)
    /\ last' = [NoOp EXCEPT !.op = "load"]
    /\ UNCHANGED <<heap_size, since_cleanup, cycle, hist, asm>>

\* the first turn of VM::run, on the halt at address 0
RunHalt ==
    /\ last.op = "load" /\ Fetch /\ vm.ip = 0
    /\ Turn(op_halt(vm), Instr("halt"), hist)

ImageNext ==
    \/ \E header \in Headers : WriteImage(header)
    \/ LoadVve
    \/ RunHalt
    \/ last.op = "load" /\ InstrOverflow

SpecImage == ImageInit /\ [][ImageNext]_vars


(***************************************************************************)
(* The assembler (assembly.rs).  A source line is kept as its lexems:      *)
(*   [kind |-> "section", name]        section text / section data         *)
(*   [kind |-> "label", name]          label NAME                          *)
(*   [kind |-> "instr", op, args]      an instruction and its operands     *)
(*   [kind |-> "data", name, type, init]   a data-segment declaration      *)
(* The initializer of a declaration is the text after the type lexem:      *)
(*   [form |-> "value", val]   one number                                  *)
(*   [form |-> "list", items]  [v1, v2, ...]                               *)
(*   [form |-> "zeros", count] !zeros=count                                *)
(***************************************************************************)
Section(name) == [kind |-> "section", name |-> name]

Label(name) == [kind |-> "label", name |-> name]

Op(op, args) == [kind |-> "instr", op |-> op, args |-> args]

Data(name, type, init) == [kind |-> "data", name |-> name, type |-> type, init |-> init]

\* voxasm_instr_table: opcode, size and operand kinds of a mnemonic
voxasm_instr_table ==
    [nop |-> [Op |-> 2, Size |-> 1, operands |-> <<>>],
     jmp |-> [Op |-> 64, Size |-> 9, operands |-> <<"Addr">>]]

\* detect_ds_var_type, of the type lexem
detect_ds_var_type(s) ==
    CASE s = "uint[]" -> 6
      [] s = "int[]" -> 7
      [] s = "float[]" -> 8
      [] s = "uint" -> 1
      [] s = "int" -> 2
      [] s = "float" -> 3
      [] s = "str" -> 4
      [] OTHER -> 0

\* get_array_length_str: eight bytes for each non-empty piece the commas
\* split the whole line into; a line without a comma is one piece
get_array_length_str(line) ==
    IF line.init.form = "list" /\ Len(line.init.items) > 1
    THEN Len(line.init.items) * 8
    ELSE 8

VoxAssemblyNew(program) ==
    [stage |-> "first", line |-> 1, program |-> program,
     cur_addr |-> 0, entry |-> 0, data_start |-> 0,
     labels |-> <<>>, data_labels |-> <<>>, bin_buffer |-> <<>>,
     output_file |-> <<>>, cursect |-> "None", data_size |-> 0]

\* HashMap::insert
insert(map, key, value) ==
    [k \in DOMAIN map \cup {key} |-> IF k = key THEN value ELSE map[k]]

asm_panic(a) == [a EXCEPT !.stage = "panic"]

save_label(a, labelname) == [a EXCEPT !.labels = insert(@, labelname, a.cur_addr)]

save_data_label(a, labelname) ==
    [a EXCEPT !.data_labels = insert(@, labelname, a.data_size)]

\* the body of the loop of first_stage, for one line
first_stage_line(a, line) ==
    CASE line.kind = "label" -> save_label(a, line.name)
      [] line.kind = "section" /\ line.name = "data" ->
            [a EXCEPT !.data_start = a.cur_addr, !.cursect = "Data"]
      [] line.kind = "section" /\ line.name = "text" ->
            [a EXCEPT !.cursect = "Code"]
      [] line.kind \in {"instr", "data"} /\ a.cursect = "Data" ->
            IF line.kind = "instr" \/ detect_ds_var_type(line.type) = 0
            THEN asm_panic(a)
            ELSE LET var_type == detect_ds_var_type(line.type)
                     var_size ==
                         CASE var_type \in {1, 2, 3} -> 8 + 8
                           [] var_type \in {6, 7, 8} -> 8 + get_array_length_str(line)
                     saved == save_data_label(a, line.name)
                 IN  [saved EXCEPT !.cur_addr = @ + 1 + var_size,
                                   !.data_size = @ + 1 + var_size]
      [] line.kind \in {"instr", "data"} /\ a.cursect # "Data" ->
            IF line.kind = "data"
            THEN asm_panic(a)
            ELSE [a EXCEPT !.cur_addr = @ + voxasm_instr_table[line.op].Size]

\* parse_array_string: the numbers between the last [ and the last ] of the
\* line, which for a !zeros line are those of the type lexem, type[count]
parse_array_string(line) ==
    IF line.init.form = "list" THEN line.init.items ELSE <<line.init.count>>

RECURSIVE words_bytes(_)
words_bytes(nums) ==
    IF nums = <<>> THEN <<>> ELSE to_be_bytes(Head(nums)) \o words_bytes(Tail(nums))

\* the bytes a data-segment declaration adds to bin_buffer
data_bytes(line) ==
    LET var_type_ind == detect_ds_var_type(line.type)
    IN  CASE var_type_ind \in {1, 2, 3} ->
                <<var_type_ind>> \o to_be_bytes(8) \o to_be_bytes(line.init.val)
          [] var_type_ind \in {7, 8} /\ line.init.form = "zeros" ->
                <<var_type_ind>> \o to_be_bytes(line.init.count * 8)
                    \o Zeros(line.init.count * 8)
          [] var_type_ind = 6 \/ (var_type_ind \in {7, 8} /\ line.init.form = "list") ->
                LET res_vec == parse_array_string(line)
                IN  <<var_type_ind>> \o to_be_bytes(Len(res_vec) * 8)
                        \o words_bytes(res_vec)

\* the bytes of one operand of an instruction; <<>> with ok FALSE where the
\* label is not in the table
operand_bytes(a, cur_type, arg) ==
    CASE cur_type = "Addr" /\ arg.label ->
            IF arg.name \in DOMAIN a.labels
            THEN [ok |-> TRUE, bytes |-> to_be_bytes(a.labels[arg.name])]
            ELSE [ok |-> FALSE, bytes |-> <<>>]
      [] cur_type = "Addr" /\ ~arg.label ->
            [ok |-> TRUE, bytes |-> to_be_bytes(arg.val)]

\* the body of the loop of assemble, for one line
assemble_line(a, line) ==
    CASE line.kind = "section" /\ line.name = "text" -> [a EXCEPT !.cursect = "Code"]
      [] line.kind = "section" /\ line.name = "data" -> [a EXCEPT !.cursect = "Data"]
      [] line.kind = "label" -> a
      [] line.kind \in {"instr", "data"} /\ a.cursect = "Data" ->
            IF line.kind = "instr" \/ detect_ds_var_type(line.type) = 0
               \/ (line.init.form = "list" /\ line.init.items = <<>>)
            THEN asm_panic(a)
            ELSE [a EXCEPT !.bin_buffer = @ \o data_bytes(line)]
      [] line.kind = "data" /\ a.cursect # "Data" -> a
      [] line.kind = "instr" /\ a.cursect # "Data" ->
            LET instr_data == voxasm_instr_table[line.op]
                opcode == instr_data.Op
                args == [ind \in DOMAIN line.args |->
                            operand_bytes(a, instr_data.operands[ind], line.args[ind])]
                flat[ind \in 0..Len(args)] ==
                    IF ind = 0 THEN <<>> ELSE flat[ind - 1] \o args[ind].bytes
            IN  IF \E ind \in DOMAIN args : ~args[ind].ok
                THEN asm_panic(a)
                ELSE [a EXCEPT !.bin_buffer = @ \o <<opcode>> \o flat[Len(args)]]

\* do_vvr: the buffer goes to the output file
do_vvr(a) == [a EXCEPT !.output_file = a.bin_buffer, !.stage = "done"]

(***************************************************************************)
(* The assembler runs over a short program, a line at a time.              *)
(***************************************************************************)
AtLabel(name) == [label |-> TRUE, name |-> name, val |-> 0]

Lines ==
    {Section("text"), Section("data"), Label("L"),
     Op("nop", <<>>), Op("jmp", <<AtLabel("L")>>),
     Data("a", "uint", [form |-> "value", val |-> 7]),
     Data("b", "int[]", [form |-> "list", items |-> <<1, 2>>]),
     Data("c", "int[]", [form |-> "zeros", count |-> 2])}

Programs == UNION {[1..n -> Lines] : n \in 1..ProgLen}

AsmInit ==
    /\ heap_size = VmHeap
    /\ since_cleanup = 0
    /\ vm = VMNew(ImageMem, heap_size, DEFAULT_RECURSION_LIMIT)
    /\ last = NoOp
    /\ cycle = NoCycle
    /\ hist = NoHist
    /\ \E program \in Programs : asm = VoxAssemblyNew(program)

Assembling(stage) == asm.stage = stage /\ asm.line <= Len(asm.program)

FirstStageLine ==
    /\ Assembling("first")
    /\ asm' = LET a == first_stage_line(asm, asm.program[asm.line])
              IN  IF a.stage = "panic" THEN a ELSE [a EXCEPT !.line = @ + 1]
    /\ last' = [NoOp EXCEPT !.op = "first_stage"]
    /\ UNCHANGED <<heap_size, vm, since_cleanup, cycle, hist>>

\* assemble, between its two passes
Rewind ==
    /\ asm.stage = "first" /\ asm.line > Len(asm.program)
    /\ asm' = [asm EXCEPT !.stage = "assemble", !.cur_addr = 0, !.line = 1]
    /\ last' = [NoOp EXCEPT !.op = "seek"]
    /\ UNCHANGED <<heap_size, vm, since_cleanup, cycle, hist>>

AssembleLine ==
    /\ Assembling("assemble")
    /\ asm' = LET a == assemble_line(asm, asm.program[asm.line])
              IN  IF a.stage = "panic" THEN a ELSE [a EXCEPT !.line = @ + 1]
    /\ hist' = [hist EXCEPT !.offsets = Append(@, Len(asm.bin_buffer))]
    /\ last' = [NoOp EXCEPT !.op = "assemble"]
    /\ UNCHANGED <<heap_size, vm, since_cleanup, cycle>>

Output ==
    /\ asm.stage = "assemble" /\ asm.line > Len(asm.program)
    /\ asm' = do_vvr(asm)
    /\ last' = [NoOp EXCEPT !.op = "do_vvr"]
    /\ UNCHANGED <<heap_size, vm, since_cleanup, cycle, hist>>

AsmNext ==
    \/ FirstStageLine
    \/ Rewind
    \/ AssembleLine
    \/ Output

SpecAsm == AsmInit /\ [][AsmNext]_vars

(***************************************************************************)
(* Arithmetic, comparison and bitwise operators of Register (registers.rs) *)
(* and their handlers (vm.rs).  The payload of a register is kept here as  *)
(* the i64 of its 64 bits: a u64 of 2^64 - k is the number -k, so that     *)
(* wrapping subtraction, !a = -a - 1 and wrapping_neg are the integer      *)
(* operations.  The flags of the code are flags[0] of, flags[1] zf,        *)
(* flags[2] nf: here flags[1], flags[2], flags[3].                         *)
(***************************************************************************)
Unsigned == {"uint", "StrAddr", "address", "ds_addr"}

\* the integer instructions whose result can be zero, and the bitwise ones
Arithmetic == {"uadd", "umul", "usub", "udec", "iadd", "imul", "isub", "iinc", "idec"}
Bitwise == {"or", "and", "not", "xor", "test", "lnot"}

\* a < b on the u64 of the bits
u64_lt(a, b) == IF (a < 0) = (b < 0) THEN a < b ELSE b < 0

\* impl PartialOrd for Register, the operator <: partial_cmp is None on
\* variants that differ, and < is then false
reg_lt(a, b) ==
    /\ a.tag = b.tag
    /\ IF a.tag \in Unsigned THEN u64_lt(a.val, b.val) ELSE a.val < b.val

\* impl Add for Register; overflow: a + b does not fit the payload
reg_add(a, b) ==
    [panic    |-> a.tag # b.tag,
     overflow |-> /\ a.tag \in Unsigned
                  /\ \/ a.val < 0 /\ b.val < 0
                     \/ (a.val < 0) # (b.val < 0) /\ a.val + b.val >= 0,
     reg      |-> Register(a.tag, a.val + b.val)]

\* impl Sub for Register
reg_sub(a, b) ==
    [panic    |-> a.tag # b.tag,
     overflow |-> a.tag \in Unsigned /\ u64_lt(a.val, b.val),
     reg      |-> Register(a.tag, a.val - b.val)]

\* impl Mul for Register
reg_mul(a, b) ==
    [panic    |-> a.tag # b.tag,
     overflow |-> /\ a.tag \in Unsigned
                  /\ a.val < 0 \/ b.val < 0
                  /\ a.val \notin {0, 1} /\ b.val \notin {0, 1},
     reg      |-> Register(a.tag, a.val * b.val)]

\* a & b, a | b, a ^ b on the bits, two's complement
RECURSIVE bitand(_, _)
bitand(a, b) ==
    CASE a = 0 \/ b = 0 -> 0
      [] a = -1 -> b
      [] b = -1 -> a
      [] OTHER -> (a % 2) * (b % 2) + 2 * bitand(a \div 2, b \div 2)

RECURSIVE bitor(_, _)
bitor(a, b) ==
    CASE a = -1 \/ b = -1 -> -1
      [] a = 0 -> b
      [] b = 0 -> a
      [] OTHER -> (IF a % 2 = 1 \/ b % 2 = 1 THEN 1 ELSE 0)
                    + 2 * bitor(a \div 2, b \div 2)

RECURSIVE bitxor(_, _)
bitxor(a, b) ==
    CASE a = 0 -> b
      [] b = 0 -> a
      [] a = -1 -> (0 - b) - 1
      [] b = -1 -> (0 - a) - 1
      [] OTHER -> (IF a % 2 # b % 2 THEN 1 ELSE 0)
                    + 2 * bitxor(a \div 2, b \div 2)

\* impl BitAnd, BitOr, BitXor for Register: no arm for float or for
\* variants that differ
reg_bitand(a, b) ==
    [panic |-> a.tag # b.tag \/ a.tag = "float",
     reg   |-> Register(a.tag, bitand(a.val, b.val))]

reg_bitor(a, b) ==
    [panic |-> a.tag # b.tag \/ a.tag = "float",
     reg   |-> Register(a.tag, bitor(a.val, b.val))]

reg_bitxor(a, b) ==
    [panic |-> a.tag # b.tag \/ a.tag = "float",
     reg   |-> Register(a.tag, bitxor(a.val, b.val))]

\* impl Not for Register
reg_not(a) ==
    [panic |-> a.tag = "float", reg |-> Register(a.tag, (0 - a.val) - 1)]

\* impl Neg for Register: -a, wrapping_neg on the unsigned variants
reg_neg(a) == Register(a.tag, 0 - a.val)

\* Register::logical_not
logical_not(a) == Register(a.tag, IF a.val = 0 THEN 1 ELSE 0)

\* what an arithmetic operator leaves of the handler: it panics on variants
\* that differ, and on an overflow in a build with overflow checks
arith(vm_, res, overflow_checks, done) ==
    IF res.panic \/ (res.overflow /\ overflow_checks) THEN abort(vm_) ELSE done

\* 0x11 uadd Rin Rtoadd
op_uadd(vm_, in_reg_ind, toadd_reg_ind, overflow_checks) ==
    LET res == reg_add(vm_.registers[in_reg_ind], vm_.registers[toadd_reg_ind])
    IN  arith(vm_, res, overflow_checks,
              [vm_ EXCEPT !.registers[in_reg_ind] = res.reg, !.ip = @ + 3])

\* 0x12 umul Rin Rtoadd
op_umul(vm_, in_reg_ind, toadd_reg_ind, overflow_checks) ==
    LET res == reg_mul(vm_.registers[in_reg_ind], vm_.registers[toadd_reg_ind])
    IN  arith(vm_, res, overflow_checks,
              [vm_ EXCEPT !.registers[in_reg_ind] = res.reg, !.ip = @ + 3])

\* 0x13 usub Rin Rtoadd
op_usub(vm_, in_reg_ind, toadd_reg_ind, overflow_checks) ==
    LET res == reg_sub(vm_.registers[in_reg_ind], vm_.registers[toadd_reg_ind])
    IN  arith(vm_, res, overflow_checks,
              [vm_ EXCEPT !.registers[in_reg_ind] = res.reg,
                          !.flags[2] = IF res.reg = Register("uint", 0) THEN 1 ELSE 0,
                          !.ip = @ + 3])

\* 0x16 ucmp Rdest Rsrc
op_ucmp(vm_, reg_dest, reg_src) ==
    LET isLess == reg_lt(vm_.registers[reg_dest], vm_.registers[reg_src])
        isEqu  == vm_.registers[reg_dest] = vm_.registers[reg_src]
    IN  [vm_ EXCEPT !.flags[3] = IF isLess THEN 1 ELSE 0,
                    !.flags[2] = IF isEqu THEN 1 ELSE 0,
                    !.ip = @ + 3]

\* 0x1a udec Rdest
op_udec(vm_, r_dest_int, overflow_checks) ==
    LET res == reg_sub(vm_.registers[r_dest_int], Register("uint", 1))
    IN  arith(vm_, res, overflow_checks,
              [vm_ EXCEPT !.registers[r_dest_int] = res.reg,
                          !.flags[2] = IF res.reg = Register("uint", 0) THEN 1 ELSE 0,
                          !.ip = @ + 2])

\* 0x21 iadd Rdest Rsrc
op_iadd(vm_, dest_r_ind, src_r_ind, overflow_checks) ==
    LET res == reg_add(vm_.registers[dest_r_ind], vm_.registers[src_r_ind])
    IN  arith(vm_, res, overflow_checks,
              [vm_ EXCEPT !.registers[dest_r_ind] = res.reg, !.ip = @ + 3])

\* 0x22 imul Rdest Rsrc
op_imul(vm_, dest_r_ind, src_r_ind, overflow_checks) ==
    LET res == reg_mul(vm_.registers[dest_r_ind], vm_.registers[src_r_ind])
    IN  arith(vm_, res, overflow_checks,
              [vm_ EXCEPT !.registers[dest_r_ind] = res.reg, !.ip = @ + 3])

\* 0x23 isub Rdest Rsrc
op_isub(vm_, dest_r_ind, src_r_ind, overflow_checks) ==
    LET res == reg_sub(vm_.registers[dest_r_ind], vm_.registers[src_r_ind])
    IN  arith(vm_, res, overflow_checks,
              [vm_ EXCEPT !.registers[dest_r_ind] = res.reg, !.ip = @ + 3])

\* 0x26 icmp Rdest Rsrc
op_icmp(vm_, dest_r_ind, src_r_ind) ==
    LET isLess == reg_lt(vm_.registers[dest_r_ind], vm_.registers[src_r_ind])
        isEqu  == vm_.registers[dest_r_ind] = vm_.registers[src_r_ind]
    IN  [vm_ EXCEPT !.flags[3] = IF isLess THEN 1 ELSE 0,
                    !.flags[2] = IF isEqu THEN 1 ELSE 0,
                    !.ip = @ + 3]

\* 0x28 ineg Rdest Rsrc
op_ineg(vm_, reg_dest_ind, reg_src_ind) ==
    LET res == reg_neg(vm_.registers[reg_src_ind])
    IN  [vm_ EXCEPT !.registers[reg_dest_ind] = res,
                    !.reg_types[reg_dest_ind] = "int64",
                    !.flags[2] = IF res = Register("int", 0) THEN 1 ELSE 0,
                    !.flags[3] = IF reg_lt(res, Register("int", 0)) THEN 1 ELSE 0,
                    !.ip = @ + 3]

\* the flags iinc and idec leave for new_val
int_flags(vm_, new_val) ==
    [vm_ EXCEPT !.flags[2] = IF new_val = Register("int", 0) THEN 1 ELSE 0,
                !.flags[3] = IF reg_lt(new_val, Register("int", 0)) THEN 1 ELSE 0]

\* 0x2b iinc Rdst
op_iinc(vm_, r_dst_ind, overflow_checks) ==
    LET res == reg_add(vm_.registers[r_dst_ind], Register("int", 1))
    IN  arith(vm_, res, overflow_checks,
              [int_flags(vm_, res.reg) EXCEPT !.registers[r_dst_ind] = res.reg,
                                              !.ip = @ + 2])

\* 0x2c idec Rdst
op_idec(vm_, r_dst_ind, overflow_checks) ==
    LET res == reg_sub(vm_.registers[r_dst_ind], Register("int", 1))
    IN  arith(vm_, res, overflow_checks,
              [int_flags(vm_, res.reg) EXCEPT !.registers[r_dst_ind] = res.reg,
                                              !.ip = @ + 2])

\* 0x40 jmp addr
op_jmp(vm_, target_addr) == [vm_ EXCEPT !.ip = target_addr]

\* the tail of the conditional jumps
jump_if(vm_, taken, target_addr) ==
    IF taken THEN [vm_ EXCEPT !.ip = target_addr] ELSE [vm_ EXCEPT !.ip = @ + 9]

\* 0x41 jz addr
op_jz(vm_, target_addr) == jump_if(vm_, vm_.flags[2] # 0, target_addr)

\* 0x42 jl addr
op_jl(vm_, target_addr) == jump_if(vm_, vm_.flags[3] # 0, target_addr)

\* 0x43 jg addr
op_jg(vm_, target_addr) ==
    jump_if(vm_, vm_.flags[2] = 0 /\ vm_.flags[3] = 0, target_addr)

\* 0x44 jge addr
op_jge(vm_, target_addr) == jump_if(vm_, vm_.flags[3] = 0, target_addr)

\* 0x45 jle addr
op_jle(vm_, target_addr) ==
    jump_if(vm_, vm_.flags[3] = 1 \/ vm_.flags[2] = 1, target_addr)

\* the tail of or, and, not, xor, test and lnot: if res.as_u64() == 0
\* flags[1] = 1, else flags[0] = 0
bit_flags(vm_, res) ==
    IF res.val = 0 THEN [vm_ EXCEPT !.flags[2] = 1] ELSE [vm_ EXCEPT !.flags[1] = 0]

\* what or, and, not, xor and lnot do with res
bit_result(vm_, r_dest_ind, r_src_ind, res) ==
    IF res.panic THEN abort(vm_)
    ELSE [bit_flags(vm_, res.reg) EXCEPT
            !.registers[r_dest_ind] = res.reg,
            !.reg_types[r_dest_ind] = vm_.reg_types[r_src_ind],
            !.ip = @ + 3]

\* 0x61 or Rdest Rsrc
op_or(vm_, r_dest_ind, r_src_ind) ==
    bit_result(vm_, r_dest_ind, r_src_ind,
               reg_bitor(vm_.registers[r_dest_ind], vm_.registers[r_src_ind]))

\* 0x62 and Rdest Rsrc
op_and(vm_, r_dest_ind, r_src_ind) ==
    bit_result(vm_, r_dest_ind, r_src_ind,
               reg_bitand(vm_.registers[r_dest_ind], vm_.registers[r_src_ind]))

\* 0x63 not Rdest Rsrc
op_not(vm_, r_dest_ind, r_src_ind) ==
    bit_result(vm_, r_dest_ind, r_src_ind, reg_not(vm_.registers[r_src_ind]))

\* 0x64 xor Rdest Rsrc
op_xor(vm_, r_dest_ind, r_src_ind) ==
    bit_result(vm_, r_dest_ind, r_src_ind,
               reg_bitxor(vm_.registers[r_dest_ind], vm_.registers[r_src_ind]))

\* 0x65 test Rdest Rsrc
op_test(vm_, r_dest_ind, r_src_ind) ==
    LET res == reg_bitand(vm_.registers[r_dest_ind], vm_.registers[r_src_ind])
    IN  IF res.panic THEN abort(vm_)
        ELSE [bit_flags(vm_, res.reg) EXCEPT !.ip = @ + 3]

\* 0x66 lnot Rdest Rsrc
op_lnot(vm_, r_dest_ind, r_src_ind) ==
    bit_result(vm_, r_dest_ind, r_src_ind,
               [panic |-> FALSE, reg |-> logical_not(vm_.registers[r_src_ind])])

(***************************************************************************)
(* The VM running a program of uload, iload, ineg, ucmp, icmp and          *)
(* conditional jumps, after one `uload r0 0`.  last keeps, for a comparison, its two   *)
(* registers (n, ptr); for a jump, its target (ptr) and, when the          *)
(* instruction before it was a comparison of two registers of one tag, how *)
(* the first compared to the second (rel), or, when it was an arithmetic   *)
(* instruction, whether its result was zero.                               *)
(***************************************************************************)
CmpInit ==
    /\ heap_size = VmHeap
    /\ since_cleanup = 1
    /\ vm = [VMNew(CmpMem, heap_size, DEFAULT_RECURSION_LIMIT) EXCEPT !.ip = 10]
    /\ last = NoOp
    /\ cycle = NoCycle
    /\ hist = NoHist
    /\ asm = NoAsm

Compared(op, rd, rs) == [Instr(op) EXCEPT !.n = rd, !.ptr = rs]

Ucmp(rd, rs) ==
    /\ Fetch /\ BeforeCycle
    /\ Turn(op_ucmp(vm, rd, rs), Compared("ucmp", rd, rs), hist)

Icmp(rd, rs) ==
    /\ Fetch /\ BeforeCycle
    /\ Turn(op_icmp(vm, rd, rs), Compared("icmp", rd, rs), hist)

Ineg(rd, rs) ==
    /\ Fetch /\ BeforeCycle
    /\ Turn(op_ineg(vm, rd, rs), Compared("ineg", rd, rs), hist)

\* the order of the payloads of two registers of the tag type
order(a, b, type) ==
    LET less == IF type # "int64" /\ (a.val < 0) # (b.val < 0)
                THEN b.val < 0 ELSE a.val < b.val
    IN  IF a.val = b.val THEN "eq" ELSE IF less THEN "lt" ELSE "gt"

Jumped(op, target_addr) ==
    [Instr(op) EXCEPT
        !.ptr = target_addr,
        !.rel = IF /\ last.op \in {"ucmp", "icmp"}
                   /\ vm.reg_types[last.n] = vm.reg_types[last.ptr]
                THEN order(vm.registers[last.n], vm.registers[last.ptr],
                           vm.reg_types[last.n])
                ELSE IF last.op \in Arithmetic
                     THEN IF last.zero THEN "zero" ELSE "nonzero"
                     ELSE "none"]

Jz(target_addr) ==
    /\ Fetch /\ BeforeCycle
    /\ Turn(op_jz(vm, target_addr), Jumped("jz", target_addr), hist)

Jl(target_addr) ==
    /\ Fetch /\ BeforeCycle
    /\ Turn(op_jl(vm, target_addr), Jumped("jl", target_addr), hist)

Jg(target_addr) ==
    /\ Fetch /\ BeforeCycle
    /\ Turn(op_jg(vm, target_addr), Jumped("jg", target_addr), hist)

Jge(target_addr) ==
    /\ Fetch /\ BeforeCycle
    /\ Turn(op_jge(vm, target_addr), Jumped("jge", target_addr), hist)

Jle(target_addr) ==
    /\ Fetch /\ BeforeCycle
    /\ Turn(op_jle(vm, target_addr), Jumped("jle", target_addr), hist)

CmpNext ==
    \/ \E r \in CmpRegs, value \in CmpImms : Uload(r, value)
    \/ \E r \in CmpRegs, value \in CmpImms : Iload(r, value)
    \/ \E rd \in CmpRegs, rs \in CmpRegs : Ineg(rd, rs)
    \/ \E rd \in CmpRegs, rs \in CmpRegs : Ucmp(rd, rs)
    \/ \E rd \in CmpRegs, rs \in CmpRegs : Icmp(rd, rs)
    \/ \E k \in JumpSkips : Jz(vm.ip + 9 + k)
    \/ \E k \in JumpSkips : Jl(vm.ip + 9 + k)
    \/ \E k \in JumpSkips : Jg(vm.ip + 9 + k)
    \/ \E k \in JumpSkips : Jge(vm.ip + 9 + k)
    \/ \E k \in JumpSkips : Jle(vm.ip + 9 + k)
    \/ InstrOverflow

SpecCmp == CmpInit /\ [][CmpNext]_vars
(***************************************************************************)
(* The VM running a program of uload, iload, the arithmetic instructions   *)
(* uadd, umul, usub, udec, iadd, imul, isub, iinc, idec, the bitwise       *)
(* instructions or, and, not, xor, test, lnot, and jz, after one           *)
(* `uload r0 0`, in a build with or without overflow checks (hist.checks). *)
(* last keeps the registers of the instruction (n, ptr) and whether the    *)
(* result the handler computed was zero (zero); for a jz its target (ptr). *)
(***************************************************************************)
FlagsInit ==
    /\ heap_size = VmHeap
    /\ since_cleanup = 1
    /\ vm = [VMNew(FlagMem, heap_size, DEFAULT_RECURSION_LIMIT) EXCEPT !.ip = 10]
    /\ last = NoOp
    /\ cycle = NoCycle
    /\ \E overflow_checks \in BOOLEAN :
        hist = [NoHist EXCEPT !.checks = overflow_checks]
    /\ asm = NoAsm

Computed(op, rd, rs, res) ==
    [Instr(op) EXCEPT !.n = rd, !.ptr = rs, !.zero = (res.val = 0)]

Uadd(rd, rs) ==
    /\ Fetch /\ BeforeCycle
    /\ Turn(op_uadd(vm, rd, rs, hist.checks),
            Computed("uadd", rd, rs, reg_add(vm.registers[rd], vm.registers[rs]).reg),
            hist)

Umul(rd, rs) ==
    /\ Fetch /\ BeforeCycle
    /\ Turn(op_umul(vm, rd, rs, hist.checks),
            Computed("umul", rd, rs, reg_mul(vm.registers[rd], vm.registers[rs]).reg),
            hist)

Usub(rd, rs) ==
    /\ Fetch /\ BeforeCycle
    /\ Turn(op_usub(vm, rd, rs, hist.checks),
            Computed("usub", rd, rs, reg_sub(vm.registers[rd], vm.registers[rs]).reg),
            hist)

Udec(rd) ==
    /\ Fetch /\ BeforeCycle
    /\ Turn(op_udec(vm, rd, hist.checks),
            Computed("udec", rd, rd, reg_sub(vm.registers[rd], Register("uint", 1)).reg),
            hist)

Iadd(rd, rs) ==
    /\ Fetch /\ BeforeCycle
    /\ Turn(op_iadd(vm, rd, rs, hist.checks),
            Computed("iadd", rd, rs, reg_add(vm.registers[rd], vm.registers[rs]).reg),
            hist)

Imul(rd, rs) ==
    /\ Fetch /\ BeforeCycle
    /\ Turn(op_imul(vm, rd, rs, hist.checks),
            Computed("imul", rd, rs, reg_mul(vm.registers[rd], vm.registers[rs]).reg),
            hist)

Isub(rd, rs) ==
    /\ Fetch /\ BeforeCycle
    /\ Turn(op_isub(vm, rd, rs, hist.checks),
            Computed("isub", rd, rs, reg_sub(vm.registers[rd], vm.registers[rs]).reg),
            hist)

Iinc(rd) ==
    /\ Fetch /\ BeforeCycle
    /\ Turn(op_iinc(vm, rd, hist.checks),
            Computed("iinc", rd, rd, reg_add(vm.registers[rd], Register("int", 1)).reg),
            hist)

Idec(rd) ==
    /\ Fetch /\ BeforeCycle
    /\ Turn(op_idec(vm, rd, hist.checks),
            Computed("idec", rd, rd, reg_sub(vm.registers[rd], Register("int", 1)).reg),
            hist)

Or(rd, rs) ==
    /\ Fetch /\ BeforeCycle
    /\ Turn(op_or(vm, rd, rs),
            Computed("or", rd, rs, reg_bitor(vm.registers[rd], vm.registers[rs]).reg),
            hist)

And(rd, rs) ==
    /\ Fetch /\ BeforeCycle
    /\ Turn(op_and(vm, rd, rs),
            Computed("and", rd, rs, reg_bitand(vm.registers[rd], vm.registers[rs]).reg),
            hist)

Not(rd, rs) ==
    /\ Fetch /\ BeforeCycle
    /\ Turn(op_not(vm, rd, rs),
            Computed("not", rd, rs, reg_not(vm.registers[rs]).reg), hist)

Xor(rd, rs) ==
    /\ Fetch /\ BeforeCycle
    /\ Turn(op_xor(vm, rd, rs),
            Computed("xor", rd, rs, reg_bitxor(vm.registers[rd], vm.registers[rs]).reg),
            hist)

Test(rd, rs) ==
    /\ Fetch /\ BeforeCycle
    /\ Turn(op_test(vm, rd, rs),
            Computed("test", rd, rs, reg_bitand(vm.registers[rd], vm.registers[rs]).reg),
            hist)

Lnot(rd, rs) ==
    /\ Fetch /\ BeforeCycle
    /\ Turn(op_lnot(vm, rd, rs),
            Computed("lnot", rd, rs, logical_not(vm.registers[rs])), hist)

\* programs of at most FlagSteps instructions after the first
FlagsRun == since_cleanup <= FlagSteps

FlagsNext ==
    \/ FlagsRun /\ \E r \in CmpRegs, value \in CmpImms : Uload(r, value)
    \/ FlagsRun /\ \E r \in CmpRegs, value \in CmpImms : Iload(r, value)
    \/ FlagsRun /\ \E rd \in CmpRegs, rs \in CmpRegs : Uadd(rd, rs)
    \/ FlagsRun /\ \E rd \in CmpRegs, rs \in CmpRegs : Umul(rd, rs)
    \/ FlagsRun /\ \E rd \in CmpRegs, rs \in CmpRegs : Usub(rd, rs)
    \/ FlagsRun /\ \E rd \in CmpRegs : Udec(rd)
    \/ FlagsRun /\ \E rd \in CmpRegs, rs \in CmpRegs : Iadd(rd, rs)
    \/ FlagsRun /\ \E rd \in CmpRegs, rs \in CmpRegs : Imul(rd, rs)
    \/ FlagsRun /\ \E rd \in CmpRegs, rs \in CmpRegs : Isub(rd, rs)
    \/ FlagsRun /\ \E rd \in CmpRegs : Iinc(rd)
    \/ FlagsRun /\ \E rd \in CmpRegs : Idec(rd)
    \/ FlagsRun /\ \E rd \in CmpRegs, rs \in CmpRegs : Or(rd, rs)
    \/ FlagsRun /\ \E rd \in CmpRegs, rs \in CmpRegs : And(rd, rs)
    \/ FlagsRun /\ \E rd \in CmpRegs, rs \in CmpRegs : Not(rd, rs)
    \/ FlagsRun /\ \E rd \in CmpRegs, rs \in CmpRegs : Xor(rd, rs)
    \/ FlagsRun /\ \E rd \in CmpRegs, rs \in CmpRegs : Test(rd, rs)
    \/ FlagsRun /\ \E rd \in CmpRegs, rs \in CmpRegs : Lnot(rd, rs)
    \/ FlagsRun /\ \E k \in JumpSkips : Jz(vm.ip + 9 + k)
    \/ InstrOverflow

SpecFlags == FlagsInit /\ [][FlagsNext]_vars

(***************************************************************************)
(* The loads from the data segment (vm.rs): dsload, dslea and dsderef.     *)
(***************************************************************************)
\* var_type_ind & !const_flag
clear_type(byte) == IF has_const(byte) THEN byte - CONST_MASK ELSE byte

\* f64::from_be_bytes, of the bytes of 0.0
args_to_f64(b) == CASE from_be_bytes(b) = 0 -> f64(0)

\* &self.memory[a..a + 8]; ok is FALSE where the range is not in memory
memory_word(vm_, a) ==
    IF \A i \in a..(a + WordBytes - 1) : in_memory(vm_, i)
    THEN [ok |-> TRUE, bytes |-> [i \in 1..WordBytes |-> vm_.memory[a + i - 1]]]
    ELSE [ok |-> FALSE, bytes |-> <<>>]

\* 0x70 dsload Rdest rel_addr offset
op_dsload(vm_, dest_reg_ind, rel_addr, offset) ==
    LET abs_addr == vm_.data_base + rel_addr + offset + 8 + 1
        word == memory_word(vm_, abs_addr)
    IN  IF ~in_memory(vm_, vm_.data_base + rel_addr) THEN abort(vm_)
        ELSE LET cleared == clear_type(vm_.memory[vm_.data_base + rel_addr])
                 var_type_ind == IF cleared >= 6 /\ cleared <= 8
                                 THEN cleared - 5 ELSE cleared
             IN  CASE var_type_ind = 1 /\ word.ok ->
                        [vm_ EXCEPT
                            !.registers[dest_reg_ind] =
                                Register("uint", from_be_bytes(word.bytes)),
                            !.reg_types[dest_reg_ind] = "uint64",
                            !.ip = @ + 18]
                   [] var_type_ind = 2 /\ word.ok ->
                        [vm_ EXCEPT
                            !.registers[dest_reg_ind] =
                                Register("int", from_be_bytes(word.bytes)),
                            !.reg_types[dest_reg_ind] = "int64",
                            !.ip = @ + 18]
                   [] var_type_ind = 3 /\ word.ok ->
                        [vm_ EXCEPT
                            !.registers[dest_reg_ind] =
                                Register("float", args_to_f64(word.bytes)),
                            !.reg_types[dest_reg_ind] = "float64",
                            !.ip = @ + 18]
                   [] var_type_ind = 4 ->
                        [vm_ EXCEPT
                            !.registers[dest_reg_ind] = Register("StrAddr", abs_addr),
                            !.reg_types[dest_reg_ind] = "StrAddr",
                            !.ip = @ + 18]
                   [] OTHER -> abort(vm_)

\* 0x74 dslea Rdest rel_addr offset
op_dslea(vm_, r_dest_ind, rel_addr, offset) ==
    [vm_ EXCEPT
        !.registers[r_dest_ind] = Register("uint", vm_.data_base + rel_addr + offset),
        !.reg_types[r_dest_ind] = "ds_addr",
        !.ip = @ + 18]

\* 0x75 dsderef Rsrc Rdest offset; src_val - offset below 0 panics as a
\* subtraction or, wrapped, as an index
op_dsderef(vm_, r_src_ind, r_dest_ind, offset) ==
    LET src_val == as_u64(vm_.registers[r_src_ind])
        tgt_addr == src_val - offset + 8 + 1
        word == memory_word(vm_, tgt_addr)
    IN  IF offset > src_val \/ ~in_memory(vm_, src_val - offset) THEN abort(vm_)
        ELSE LET val_type == vm_.memory[src_val - offset]
             IN  IF val_type = 4 \/ ~word.ok \/ val_type \notin {1, 2, 3, 5, 6, 7}
                 THEN abort(vm_)
                 ELSE [vm_ EXCEPT
                        !.registers[r_dest_ind] =
                            Register("uint", from_be_bytes(word.bytes)),
                        !.reg_types[r_dest_ind] =
                            CASE val_type \in {1, 5} -> "uint64"
                              [] val_type \in {2, 6} -> "int64"
                              [] val_type \in {3, 7} -> "float64",
                        !.ip = @ + 11]

(***************************************************************************)
(* The VM running an image whose data segment is one record, of a scalar   *)
(* or an array type, const or not, after one `uload r0 0`: a program of    *)
(* dsload, dslea and dsderef on that record.  The floats of the records    *)
(* are 0.0.  last keeps the destination register (n) and, in ok, that a    *)
(* dsload read the first word of the record, that a dsderef went through   *)
(* a register tagged ds_addr to the type byte of the record.               *)
(***************************************************************************)
RecordTypes == {1, 2, 3, 6, 7, 8}

\* a record as the assembler emits it: type, length in bytes, payload
typed_record(type, const, words) ==
    <<IF const THEN type + CONST_MASK ELSE type>>
        \o to_be_bytes(Len(words) * WordBytes) \o words_bytes(words)

DerefInit ==
    /\ heap_size = VmHeap
    /\ since_cleanup = 1
    /\ \E type \in RecordTypes, const \in BOOLEAN :
        LET value == IF type \in {3, 8} THEN 0 ELSE DsValue
            image == typed_record(type, const,
                                  IF type <= 3 THEN <<value>> ELSE <<value, value>>)
        IN  vm = [VMNew(DsBase + Len(image), heap_size, DEFAULT_RECURSION_LIMIT) EXCEPT
                    !.ip = 10,
                    !.data_base = DsBase,
                    !.data_size = Len(image),
                    !.memory = [a \in DsBase..(DsBase + Len(image) - 1) |->
                                    image[a - DsBase + 1]]]
    /\ last = NoOp
    /\ cycle = NoCycle
    /\ hist = NoHist
    /\ asm = NoAsm

Dsload(rd, rel_addr, offset) ==
    /\ Fetch /\ BeforeCycle
    /\ Turn(op_dsload(vm, rd, rel_addr, offset),
            [Instr("dsload") EXCEPT !.n = rd, !.ok = (rel_addr = 0 /\ offset = 0)],
            hist)

Dslea(rd, rel_addr, offset) ==
    /\ Fetch /\ BeforeCycle
    /\ Turn(op_dslea(vm, rd, rel_addr, offset),
            [Instr("dslea") EXCEPT !.n = rd, !.ptr = offset], hist)

\* the byte the dsderef takes for the type lies in the data segment: below
\* it is the code of the program
DerefInData(rs, offset) ==
    as_u64(vm.registers[rs]) - offset >= vm.data_base

Dsderef(rs, rd, offset) ==
    /\ Fetch /\ BeforeCycle
    /\ DerefInData(rs, offset)
    /\ Turn(op_dsderef(vm, rs, rd, offset),
            [Instr("dsderef") EXCEPT
                !.n = rd,
                !.ok = /\ vm.reg_types[rs] = "ds_addr"
                       /\ as_u64(vm.registers[rs]) - offset = vm.data_base],
            hist)

DerefNext ==
    \/ InCode(18) /\ \E rd \in CmpRegs, offset \in DerefOffsets : Dsload(rd, 0, offset)
    \/ InCode(18) /\ \E rd \in CmpRegs, offset \in DerefOffsets : Dslea(rd, 0, offset)
    \/ InCode(11) /\ \E rs \in CmpRegs, rd \in CmpRegs, offset \in DerefOffsets :
                        Dsderef(rs, rd, offset)
    \/ InCode(1) /\ Halt

SpecDeref == DerefInit /\ [][DerefNext]_vars

(***************************************************************************)
(* The VM running a program of uload, alloc, store and free, from up to    *)
(* RefsWindow instructions before a collection cycle through the cycle.    *)
(***************************************************************************)
EdgesNext ==
    \/ \E r \in Regs, value \in Imms : Uload(r, value)
    \/ \E rd \in Regs, n \in AllocSizes : Alloc(rd, n)
    \/ \E rd \in Regs, rs \in Regs : Store(rd, rs)
    \/ \E r \in Regs : Free(r)
    \/ InstrOverflow

SpecEdges == RefsInit /\ [][EdgesNext]_vars

(***************************************************************************)
(* The VM running, from its first instruction, a program of alloc, uload   *)
(* and store that ends in a `jmp` to its own address: the loop of VM::run  *)
(* goes on executing the jmp and a collection cycle runs in every 251st    *)
(* turn.  hist.code keeps the jmp the run has fetched: it fetches the same *)
(* again at that address.                                                  *)
(***************************************************************************)
LiveInit ==
    /\ heap_size = VmHeap
    /\ since_cleanup = 0
    /\ vm = VMNew(LiveMem, heap_size, DEFAULT_RECURSION_LIMIT)
    /\ last = NoOp
    /\ cycle = NoCycle
    /\ hist = NoHist
    /\ asm = NoAsm

UloadOn(r, value) ==
    /\ Fetch /\ Fetched(Code("uload", r, value))
    /\ Turn(op_uload(vm, r, value), Instr("uload"), hist)

AllocOn(rd, size_bytes) ==
    /\ Fetch /\ Fetched(Code("alloc", rd, size_bytes))
    /\ Turn(op_alloc(vm, rd, size_bytes), Instr("alloc"), hist)

StoreOn(rd, rs) ==
    /\ Fetch /\ Fetched(Code("store", rd, rs))
    /\ Turn(op_store(vm, rd, rs), Instr("store"), hist)

Jmp(target_addr) ==
    /\ Fetch /\ Fetched(Code("jmp", target_addr, 0))
    /\ Turn(op_jmp(vm, target_addr), [Instr("jmp") EXCEPT !.ptr = target_addr],
            Keep(Code("jmp", target_addr, 0)))

LiveNext ==
    \/ \E r \in CmpRegs : UloadOn(r, 0)
    \/ \E rd \in CmpRegs, size_bytes \in LiveSizes : AllocOn(rd, size_bytes)
    \/ \E rd \in CmpRegs : \E rs \in CmpRegs \ {rd} : StoreOn(rd, rs)
    \/ Jmp(vm.ip)
    \/ InstrOverflow

\* the loop of VM::run takes its next turn as long as there is one to take
SpecLive == LiveInit /\ [][LiveNext]_vars /\ WF_vars(LiveNext)

(***************************************************************************)
(* The collector.                                                          *)
(***************************************************************************)
\* the heap pointers held in registers and in operand-stack frames whose
\* tag is address
address_roots(vm_) ==
    {vm_.registers[i].val : i \in {j \in 0..(NumRegs - 1) : vm_.reg_types[j] = "address"}}
    \cup {vm_.stack[i].val : i \in {j \in 1..Len(vm_.stack) : vm_.stack[j].ftype = "address"}}

RECURSIVE transitive_closure(_, _)
transitive_closure(R, refs) ==
    LET more == R \cup {e[2] : e \in {d \in refs : d[1] \in R}}
    IN  IF more = R THEN R ELSE transitive_closure(more, refs)

tracked(vm_) == {vm_.gc.objects[i].heap_ptr : i \in 1..Len(vm_.gc.objects)}

\* C1: GC safety. After a collection cycle, every pointer in the transitive
\* closure, under saved_refs, of the address-tagged registers and stack
\* frames that was the start of an allocated block before the cycle is
\* still the start of an allocated block.
C1_GcSafety ==
    cycle.ran =>
        \A p \in transitive_closure(address_roots(cycle.pre),
                                    cycle.pre.heap.saved_refs) :
            p \in starts_of(cycle.pre.heap.allocated)
                => p \in starts_of(vm.heap.allocated)

\* a cycle that frees the only tracked block while the top frame of the
\* operand stack, tagged address, points to it
C1_Witness ==
    /\ cycle.ran
    /\ Len(cycle.pre.gc.objects) = 1
    /\ Len(cycle.pre.stack) >= 1
    /\ LET top == cycle.pre.stack[Len(cycle.pre.stack)]
       IN  /\ top.ftype = "address"
           /\ top.val \in starts_of(cycle.pre.heap.allocated)
           /\ top.val \in cycle.freed

\* C2: GC completeness. In a collection cycle every tracked object whose
\* pointer is not in the transitive closure of the roots under saved_refs
\* is handed to heap.free and no such object stays in the tracking list.
C2_GcCompleteness ==
    cycle.ran =>
        LET reach == transitive_closure(address_roots(cycle.pre),
                                        cycle.pre.heap.saved_refs)
        IN  /\ \A p \in tracked(cycle.pre) \ reach :
                    \E i \in 1..Len(cycle.addrs) : cycle.addrs[i] = p
            /\ tracked(vm) \subseteq reach

\* a cycle with nothing on the stack and two tracked blocks, neither one
\* reachable, that hands only one of them to heap.free
C2_Witness ==
    /\ cycle.ran
    /\ cycle.pre.stack = <<>>
    /\ Len(cycle.pre.gc.objects) = 2
    /\ tracked(cycle.pre) \cap transitive_closure(address_roots(cycle.pre),
                                cycle.pre.heap.saved_refs) = {}
    /\ Len(cycle.addrs) = 1
    /\ Len(vm.gc.objects) = 1

\* C3: a block obtained from allocr_nogc stays allocated until a free
\* instruction frees it.
C3_NogcNeverCollected ==
    \A p \in hist.nogc : p \in starts_of(vm.heap.allocated)

\* a cycle that frees a block obtained from allocr_nogc
C3_Witness ==
    /\ cycle.ran
    /\ hist.nogc \cap cycle.freed # {}

\* C4: a tracked block whose address a store wrote, from a register tagged
\* address, into a slot of a block reachable from the roots is not freed by
\* the collection cycle, whatever the slot inside the reachable block.
C4_StoredPointerKept ==
    cycle.ran =>
        LET block_refs == {<<e[1], e[3]>> : e \in hist.stores}
            reach == transitive_closure(address_roots(cycle.pre), block_refs)
        IN  \A e \in hist.stores :
                (/\ e[1] \in reach
                 /\ e[3] \in tracked(cycle.pre)
                 /\ e[3] \in starts_of(cycle.pre.heap.allocated))
                    => e[3] \notin cycle.freed

\* a cycle, no allocation having failed before it, that frees a block whose
\* address is stored 8 bytes into a block a register points to
C4_Witness ==
    /\ cycle.ran
    /\ cycle.pre.exceptions_active = <<>>
    /\ \E e \in hist.stores :
            /\ e[1] \in address_roots(cycle.pre)
            /\ e[2] = e[1] + WordBytes
            /\ e[3] \in tracked(cycle.pre)
            /\ e[3] \in cycle.freed

(***************************************************************************)
(* Claims about the allocator.                                             *)
(***************************************************************************)
sizes_of(blocks) == SumSeq([i \in 1..Len(blocks) |-> blocks[i].size])

\* C5: after any sequence of alloc and free calls free_list is sorted by
\* start and no two free blocks overlap or are adjacent: for consecutive
\* blocks free[i].last + 1 < free[i+1].start.
C5_FreeListMerged ==
    \A i \in 1..(Len(vm.heap.free_list) - 1) :
        /\ vm.heap.free_list[i].start_byte < vm.heap.free_list[i + 1].start_byte
        /\ vm.heap.free_list[i].last_byte + 1 < vm.heap.free_list[i + 1].start_byte

\* a free has just succeeded and left several free blocks around allocated ones
C5_Witness ==
    /\ last.op = "free" /\ last.ok
    /\ Len(vm.heap.free_list) >= 2
    /\ Len(vm.heap.allocated) >= 1

\* C6: from any reachable heap state, if alloc(n) succeeds and returns p,
\* free(p) right after it leaves free_list (same blocks, same order) and
\* allocated as they were before the alloc.
C6_FreeUndoesAlloc ==
    \A n \in 0..MaxAlloc :
        LET a == alloc(vm.heap, n)
        IN  a.ok =>
              LET f == free(a.heap, a.ptr)
              IN  /\ f.ok
                  /\ f.heap.free_list = vm.heap.free_list
                  /\ f.heap.allocated = vm.heap.allocated

\* the free of the pointer the alloc just before returned, carved out of a
\* fragmented free list
C6_Witness ==
    /\ last.op = "free" /\ last.ok /\ last.rel = "undo"
    /\ Len(vm.heap.free_list) >= 2
    /\ Len(vm.heap.allocated) >= 1

\* C7: if alloc(N) returns p, writing N bytes at p succeeds and writing
\* N + 1 bytes at p fails and leaves the heap (its bytes included) unchanged.
C7_WriteWithinAlloc ==
    [][ last'.op = "write" =>
          /\ last'.rel = "exact" => last'.ok
          /\ last'.rel = "over" => (~last'.ok /\ vm'.heap = vm.heap) ]_vars

\* a write of N + 1 bytes at the pointer alloc(N) just returned has failed,
\* with N >= 1 and another block allocated
C7_Witness ==
    /\ last.op = "write" /\ last.rel = "over" /\ ~last.ok
    /\ Len(vm.heap.allocated) >= 2
    /\ \E i \in 1..Len(vm.heap.allocated) : vm.heap.allocated[i].size >= 1

\* C8 as stated: the sizes of the free blocks plus the sizes of the
\* allocated blocks add up to the heap capacity, one byte of remainder apart.
C8_SizesSumToCapacity ==
    heap_size - (sizes_of(vm.heap.free_list) + sizes_of(vm.heap.allocated)) \in {0, 1}

\* C8 as amended: every block, free or allocated, spans size + 1 bytes, so
\* on a heap of capacity >= 1 the sizes add up to the capacity less the
\* number of blocks.
C8_SizesPlusBlocks ==
    heap_size >= 1 =>
        sizes_of(vm.heap.free_list) + sizes_of(vm.heap.allocated)
            + Len(vm.heap.free_list) + Len(vm.heap.allocated) = heap_size

\* allocs and frees have left several blocks of both kinds
C8_Witness ==
    /\ heap_size >= 1
    /\ last.op \in {"alloc", "free"} /\ last.ok
    /\ Len(vm.heap.free_list) >= 2
    /\ Len(vm.heap.allocated) >= 2

(***************************************************************************)
(* Division by zero.                                                       *)
(***************************************************************************)
\* C9: after udiv with the divisor register holding uint 0 the VM is still
\* running, the exception queue contains ZeroDivision and ip has advanced
\* by 4.
C9_UdivByZeroRaises ==
    (last.op = "udiv" /\ last.zero) =>
        /\ vm.running /\ ~vm.panic
        /\ \E i \in 1..Len(vm.exceptions_active) :
                vm.exceptions_active[i] = "ZeroDivision"
        /\ vm.ip = last.ip + 4

\* udiv by uint 0 has queued ZeroDivision and then panicked in the division
C9_Witness ==
    /\ last.op = "udiv" /\ last.zero
    /\ vm.panic
    /\ vm.exceptions_active = <<"ZeroDivision">>
    /\ vm.ip = last.ip

\* C10: idiv, irem and urem with a zero divisor do not abort the VM: they
\* append ZeroDivision to the exception queue and execution continues with
\* the next instruction.
C10_DivRemByZeroContinue ==
    (last.op \in {"idiv", "irem", "urem"} /\ last.zero) =>
        /\ vm.running /\ ~vm.panic
        /\ vm.exceptions_active # <<>>
        /\ vm.exceptions_active[Len(vm.exceptions_active)] = "ZeroDivision"
        /\ vm.ip = last.ip + 4

\* idiv, irem or urem with a zero divisor has panicked, the queue empty
C10_Witness ==
    /\ last.op \in {"idiv", "irem", "urem"} /\ last.zero
    /\ vm.panic
    /\ vm.exceptions_active = <<>>

(***************************************************************************)
(* Exceptions, calls and the operand stack.                                *)
(***************************************************************************)
\* C11: fsqrt with the source register holding a float below 0 queues
\* NegativeSqrt, leaves the destination register (value and tag) and the
\* flags as they were and advances ip by 3.
C11_FsqrtNegative ==
    [][ (last'.op = "fsqrt" /\ last'.zero) =>
            /\ ~vm'.panic
            /\ vm'.exceptions_active = Append(vm.exceptions_active, "NegativeSqrt")
            /\ vm'.registers[last'.n] = vm.registers[last'.n]
            /\ vm'.reg_types[last'.n] = vm.reg_types[last'.n]
            /\ vm'.flags = vm.flags
            /\ vm'.ip = vm.ip + 3 ]_vars

\* an fsqrt of a negative float, the zero flag set by an earlier fsqrt
C11_Witness ==
    /\ last.op = "fsqrt" /\ last.zero
    /\ vm.flags[2] = 1
    /\ vm.exceptions_active # <<>>

\* q without the earliest occurrence of e, the rest in order
without_earliest(q, e) ==
    LET i == CHOOSE k \in 1..Len(q) : q[k] = e /\ \A j \in 1..(k - 1) : q[j] # e
    IN  [j \in 1..(Len(q) - 1) |-> IF j < i THEN q[j] ELSE q[j + 1]]

\* C12: jexc with a code in 1..6 removes the earliest occurrence of the named
\* exception, keeps the order of the others and sets ip to its address; when
\* the queue does not hold the exception it leaves the queue and advances ip
\* by 17. Every other instruction only appends to the queue.
C12_JexcConsumesEarliest ==
    [][ LET q == vm.exceptions_active
            e == exception_of(last'.n)
        IN  IF last'.op = "jexc"
            THEN IF \E k \in 1..Len(q) : q[k] = e
                 THEN /\ vm'.exceptions_active = without_earliest(q, e)
                      /\ vm'.ip = last'.ptr
                 ELSE /\ vm'.exceptions_active = q
                      /\ vm'.ip = vm.ip + 17
            ELSE /\ Len(vm'.exceptions_active) >= Len(q)
                 /\ SubSeq(vm'.exceptions_active, 1, Len(q)) = q ]_vars

\* a jexc that took the earlier of two occurrences, another exception
\* between them
C12_Witness ==
    /\ last.op = "jexc" /\ last.ok
    /\ vm.ip = last.ptr
    /\ Len(vm.exceptions_active) >= 2
    /\ vm.exceptions_active[1] # exception_of(last.n)
    /\ vm.exceptions_active[2] = exception_of(last.n)

\* C13: the depth of the call stack never exceeds the maximum recursion
\* depth the VM was constructed with.
C13_DepthBounded == Len(vm.call_stack) <= vm.rec_depth_max

\* a callr that has pushed a frame beyond the maximum recursion depth
C13_Witness ==
    /\ last.op = "callr"
    /\ ~vm.panic
    /\ Len(vm.call_stack) = vm.rec_depth_max + 1

\* C14: call IND at address A pushes A + 9 and sets ip to function_table[IND];
\* ret pops the most recent return address and sets ip to it, so the ret
\* that matches a call leaves ip at the address following that call and the
\* call stack as it was before the call.
C14_CallRet ==
    [][ /\ (last'.op = "call" /\ ~vm'.panic) =>
                /\ vm'.call_stack = Append(vm.call_stack, vm.ip + 9)
                /\ vm'.ip = vm.func_table[last'.n + 1]
        /\ (last'.op = "ret" /\ ~vm'.panic) =>
                /\ hist.frames # <<>>
                /\ vm'.ip = hist.frames[Len(hist.frames)].ret
                /\ vm'.call_stack = hist.frames[Len(hist.frames)].below ]_vars

\* the ret of a call nested in another call: it has come back to the
\* address following a call, one frame left
C14_Witness ==
    /\ last.op = "ret" /\ ~vm.panic
    /\ Len(vm.call_stack) = 1
    /\ \E c \in hist.code : c[2].op = "call" /\ vm.ip = c[1] + 9

\* C15: from every state, for every register r and function index I,
\* fnstind r, I followed by callr r does to ip and to the call stack what
\* call I does at the position of the callr: ip becomes function_table[I],
\* one frame holding the address of the instruction after the call
\* instruction is pushed, and the two are fatal in the same states.
C15_FnstindCallrAsCall ==
    ~vm.panic =>
        \A r \in CallRegs, I \in FuncInds :
            LET at        == op_fnstind(vm, r, I)
                indirect  == op_callr(at, r)
                direct    == op_call(at, I)
            IN  /\ indirect.panic = direct.panic
                /\ ~indirect.panic =>
                    /\ indirect.ip = vm.func_table[I + 1]
                    /\ direct.ip = vm.func_table[I + 1]
                    /\ indirect.call_stack = Append(vm.call_stack, at.ip + 2)
                    /\ direct.call_stack = Append(vm.call_stack, at.ip + 9)

\* fnstind and callr executed with the call stack at the maximum recursion
\* depth, where call is fatal: the callr has pushed its frame
C15_Witness ==
    /\ last.op = "callr" /\ ~vm.panic
    /\ Len(vm.call_stack) = vm.rec_depth_max + 1
    /\ \E c \in hist.code :
            c[1] = last.ip - 10 /\ c[2].op = "fnstind" /\ c[2].a = last.n
    /\ op_call([vm EXCEPT !.ip = last.ip,
                          !.call_stack = SubSeq(@, 1, Len(@) - 1)], 0).panic

\* C16: from every state, push r followed by pop r2 leaves r2 holding the
\* value and the type tag r held, the operand stack as it was and r
\* unchanged when r2 is another register; and values come back in the
\* reverse order of their pushes.
C16_PushPop ==
    ~vm.panic =>
        \A r \in Regs, r2 \in Regs :
            LET after == op_pop(op_push(vm, r), r2)
                lifo  == op_pop(op_pop(op_push(op_push(vm, r), r2), r2), r)
            IN  /\ ~after.panic
                /\ after.registers[r2] = vm.registers[r]
                /\ after.reg_types[r2] = vm.reg_types[r]
                /\ after.stack = vm.stack
                /\ r2 # r => after.registers[r] = vm.registers[r]
                /\ lifo.registers = vm.registers
                /\ lifo.reg_types = vm.reg_types
                /\ lifo.stack = vm.stack

\* a pop has run after a push of a register whose int value udiv tagged
\* uint64: the value came back as a uint
C16_Witness ==
    /\ last.op = "pop" /\ ~vm.panic /\ vm.stack = <<>>
    /\ \E r \in Regs, r2 \in Regs :
        /\ r # r2
        /\ vm.registers[r] = Register("int", 3)
        /\ vm.reg_types[r] = "uint64"
        /\ vm.registers[r2] = Register("uint", 3)
        /\ vm.reg_types[r2] = "uint64"

\* C17: from every state, pushall puts the value and tag of each of the 32
\* registers on the operand stack, in register order, and after a load
\* that overwrites a register a popall gives every register the value and
\* tag it had at the pushall and the operand stack the depth it had before.
C17_PushallPopall ==
    ~vm.panic =>
        \A r \in Regs, value \in UImms :
            LET saved    == op_pushall(vm)
                restored == op_popall(op_uload(saved, r, value))
            IN  /\ saved.stack = vm.stack \o
                        [k \in 1..NumRegs |->
                            [val   |-> as_u64_bitwise(vm.registers[k - 1]),
                             ftype |-> vm.reg_types[k - 1]]]
                /\ ~restored.panic
                /\ restored.registers = vm.registers
                /\ restored.reg_types = vm.reg_types
                /\ Len(restored.stack) = Len(vm.stack)

\* a popall has run on the frames of a pushall, after a register was
\* overwritten: the frames are still on the stack and the register keeps
\* the later value
C17_Witness ==
    /\ last.op = "popall" /\ ~vm.panic
    /\ Len(vm.stack) = NumRegs - 1
    /\ \E r \in Regs : vm.stack[r + 1].val # as_u64_bitwise(vm.registers[r])

\* C18: pop or popall executed on an empty operand stack, or ret on an
\* empty call stack, aborts the VM instead of going on to the next
\* instruction.
C18_UnderflowFatal ==
    [][/\ (last'.op \in {"pop", "popall"} /\ vm.stack = <<>>) => vm'.panic
       /\ (last'.op = "ret" /\ vm.call_stack = <<>>) => vm'.panic]_vars

\* popall has run on an empty operand stack and the VM goes on
C18_Witness ==
    /\ last.op = "popall" /\ ~vm.panic
    /\ vm.stack = <<>>
    /\ vm.ip = last.ip + 1

\* the type-and-flags byte of the record at rel_addr has the const bit set
is_const_record(vm_, rel_addr) ==
    /\ rel_addr \in DsRecords
    /\ has_const(vm_.memory[vm_.data_base + rel_addr])

\* C19: a dssave or dsrsave whose rel_addr names a record with the const
\* bit set aborts the VM, with every byte of memory and ip as they were.
C19_ConstStoreFatal ==
    [][(last'.op \in {"dssave", "dsrsave"} /\ is_const_record(vm, last'.n)) =>
            /\ vm'.panic
            /\ vm'.memory = vm.memory
            /\ vm'.ip = vm.ip]_vars

\* a dssave has named a const record and the VM has aborted
C19_Witness ==
    /\ last.op = "dssave" /\ vm.panic
    /\ is_const_record(vm, last.n)
    /\ vm.ip = last.ip

\* C20: no dssave or dsrsave, whatever its rel_addr and offset, changes a
\* byte of the header or of the payload of a record whose const bit is set
\* (the stores of these runs never set a const bit, so a record with the bit
\* set has had it since the load).
C20_ConstRecordsKept ==
    [][\A rel_addr \in DsRecords :
            is_const_record(vm, rel_addr) =>
                \A i \in 0..(RecordBytes - 1) :
                    vm'.memory[vm.data_base + rel_addr + i] =
                        vm.memory[vm.data_base + rel_addr + i]]_vars

\* a store has completed and the payload of the second record, still
\* marked const, is no longer the value of the image
C20_Witness ==
    /\ last.op \in {"dssave", "dsrsave"} /\ ~vm.panic
    /\ is_const_record(vm, RecordBytes)
    /\ SubSeq([k \in 1..RecordBytes |-> vm.memory[vm.data_base + RecordBytes + k - 1]],
              2 + WordBytes, RecordBytes) # to_be_bytes(DsValue)

\* C25: the root set of a collection cycle, the union of gc_gen_reg_set and
\* fetch_dstack_refs, holds the value of every register tagged address and
\* of every operand-stack frame tagged address, the top frame included.
C25_RootSetComplete ==
    cycle.ran =>
        address_roots(cycle.pre) \subseteq
            gc_gen_reg_set(cycle.pre) \cup fetch_dstack_refs(cycle.pre)

\* a cycle has run with the top frame of the operand stack tagged address
\* and its value in neither set
C25_Witness ==
    /\ cycle.ran
    /\ cycle.pre.stack # <<>>
    /\ LET top == cycle.pre.stack[Len(cycle.pre.stack)]
       IN  /\ top.ftype = "address"
           /\ top.val \notin gc_gen_reg_set(cycle.pre)
           /\ top.val \notin fetch_dstack_refs(cycle.pre)

\* the instructions executed when the VM is vm_, in a run of uload only
executed(vm_) == vm_.ip \div 10

\* C26: the first collection cycle runs when exactly 250 instructions have
\* been executed: a cycle runs in the turn of the 250th instruction, and
\* in no other turn.
C26_CycleEvery250 ==
    /\ cycle.ran => executed(cycle.pre) = GcPeriod
    /\ (last.op = "uload" /\ executed(vm) = GcPeriod) => cycle.ran

\* the first cycle, in the turn of instruction 251
C26_Witness ==
    /\ cycle.ran
    /\ last.op = "uload"
    /\ executed(cycle.pre) = GcPeriod + 1
    /\ since_cleanup = 0

\* the bounds check of Heap::read and of Heap::write: some allocated block
\* passes it
read_passes(h, ptr, n) ==
    \E i \in 1..Len(h.allocated) : read_fits(h.allocated[i], ptr, n)

write_passes(h, ptr, n) ==
    \E i \in 1..Len(h.allocated) : write_fits(h.allocated[i], ptr, n)

\* C27: in every heap state, for every pointer and every length n >= 1,
\* read(ptr, n) passes the bounds check exactly when a write of n bytes at
\* ptr passes it.
C27_ReadChecksAsWrite ==
    \A ptr \in 0..RwHeap, n \in 1..MaxWrite :
        read_passes(vm.heap, ptr, n) <=> write_passes(vm.heap, ptr, n)

\* a write of N + 1 bytes at the pointer alloc(N) returned has been
\* rejected, and there is a block at whose start a read of one byte more
\* than its size passes the check no write of that length passes
C27_Witness ==
    /\ last.op = "write" /\ last.rel = "over" /\ ~last.ok
    /\ \E i \in 1..Len(vm.heap.allocated) :
        LET b == vm.heap.allocated[i]
        IN  /\ b.size + 1 <= MaxWrite
            /\ read_passes(vm.heap, b.start_byte, b.size + 1)
            /\ ~write_passes(vm.heap, b.start_byte, b.size + 1)

\* C28: in every heap state and for every size n, alloc(n) returns the
\* start of the lowest-addressed free block of size >= n, appends to
\* allocated the block of n bytes carved from the low end of that free
\* block and shrinks or deletes the free block; it returns None exactly
\* when no free block has size >= n, and then free_list and allocated are
\* unchanged, and the alloc instruction appends HeapAllocationFault and
\* advances ip by 10 all the same.
C28_FirstFit ==
    \A n \in 0..MaxAlloc :
        LET h     == vm.heap
            fits  == {i \in 1..Len(h.free_list) : h.free_list[i].size >= n}
            r     == alloc(h, n)
            after == op_alloc(vm, 0, n)
        IN  /\ r.ok <=> fits # {}
            /\ after.ip = vm.ip + 10
            /\ after.heap = r.heap
            /\ ~r.ok =>
                /\ r.heap = h
                /\ after.exceptions_active =
                        Append(vm.exceptions_active, "HeapAllocationFault")
            /\ r.ok =>
                LET low == CHOOSE i \in fits : \A j \in fits :
                                h.free_list[i].start_byte <= h.free_list[j].start_byte
                    b   == h.free_list[low]
                IN  /\ r.ptr = b.start_byte
                    /\ after.exceptions_active = vm.exceptions_active
                    /\ Len(r.heap.allocated) = Len(h.allocated) + 1
                    /\ SubSeq(r.heap.allocated, 1, Len(h.allocated)) = h.allocated
                    /\ r.heap.allocated[Len(r.heap.allocated)].start_byte = b.start_byte
                    /\ r.heap.allocated[Len(r.heap.allocated)].size = n
                    /\ \/ r.heap.free_list = RemoveAt(h.free_list, low)
                       \/ /\ Len(r.heap.free_list) = Len(h.free_list)
                          /\ \A i \in 1..Len(h.free_list) :
                                i # low => r.heap.free_list[i] = h.free_list[i]
                          /\ r.heap.free_list[low].start_byte > b.start_byte + n
                          /\ r.heap.free_list[low].last_byte = b.last_byte

\* an alloc has skipped a free block at a lower address, too small for it,
\* and taken the next one
C28_Witness ==
    /\ last.op = "alloc" /\ last.ok /\ last.n >= 1
    /\ \E i \in 1..Len(vm.heap.free_list) :
            vm.heap.free_list[i].start_byte < last.ptr
    /\ \E i \in 1..Len(vm.heap.allocated) :
            vm.heap.allocated[i].start_byte = last.ptr

\* C29: from every state and for every register, a free of a pointer that
\* is not the start of an allocated block appends HeapFreeFault and leaves
\* free_list and allocated as they were; a second free of the pointer a
\* free has just released does the same; and free adds 2 to ip whether it
\* succeeds or not.
C29_FreeFault ==
    ~vm.panic =>
        \A r \in Regs :
            LET ptr   == as_u64(vm.registers[r])
                first == op_free(vm, r)
                again == op_free(first, r)
            IN  /\ first.ip = vm.ip + 2
                /\ again.ip = first.ip + 2
                /\ ptr \notin starts_of(vm.heap.allocated) =>
                    /\ first.exceptions_active =
                            Append(vm.exceptions_active, "HeapFreeFault")
                    /\ first.heap.free_list = vm.heap.free_list
                    /\ first.heap.allocated = vm.heap.allocated
                /\ ptr \in starts_of(vm.heap.allocated) =>
                    /\ first.exceptions_active = vm.exceptions_active
                    /\ again.exceptions_active =
                            Append(first.exceptions_active, "HeapFreeFault")
                    /\ again.heap.free_list = first.heap.free_list
                    /\ again.heap.allocated = first.heap.allocated

\* the block of a tracked object has been freed by a free instruction and
\* a second free has raised HeapFreeFault, before any collection cycle
C29_Witness ==
    /\ last.op = "free" /\ ~vm.panic
    /\ since_cleanup > 0 /\ ~cycle.ran
    /\ vm.exceptions_active = <<"HeapFreeFault">>
    /\ Len(vm.gc.objects) = 1
    /\ vm.heap.allocated = <<>>
    /\ vm.ip = last.ip + 2

\* C30: from every state and for every pair of registers, store adds the
\* edge (destination pointer, stored value) to saved_refs exactly when the
\* eight bytes fit an allocated block and the source register is tagged
\* address; a store whose write is rejected appends HeapWriteFault and
\* leaves the heap bytes and saved_refs as they were; store adds 3 to ip.
C30_StoreEdges ==
    ~vm.panic =>
        \A rd \in Regs, rs \in Regs :
            LET ptr   == as_u64(vm.registers[rd])
                val   == as_u64(vm.registers[rs])
                fits  == write_passes(vm.heap, ptr, WordBytes)
                after == op_store(vm, rd, rs)
            IN  /\ after.ip = vm.ip + 3
                /\ after.heap.saved_refs =
                        IF fits /\ vm.reg_types[rs] = "address"
                        THEN vm.heap.saved_refs \cup {<<ptr, val>>}
                        ELSE vm.heap.saved_refs
                /\ fits =>
                    /\ after.exceptions_active = vm.exceptions_active
                    /\ read(after.heap, ptr, WordBytes).bytes = to_be_bytes(val)
                /\ ~fits =>
                    /\ after.exceptions_active =
                            Append(vm.exceptions_active, "HeapWriteFault")
                    /\ after.heap = vm.heap

\* a store whose write was rejected, after a store that recorded an edge
C30_Witness ==
    /\ last.op = "store" /\ ~vm.panic
    /\ vm.exceptions_active # <<>>
    /\ vm.exceptions_active[Len(vm.exceptions_active)] = "HeapWriteFault"
    /\ vm.heap.saved_refs # {}
    /\ vm.ip = last.ip + 3

\* C21: every instruction that completes without a fatal error, halt
\* apart, advances ip by its size in the instruction table: nop by 1 and
\* changing nothing else, ncall by 4 whatever the native code.
C21_IpAdvancesBySize ==
    [][(last'.op \in DOMAIN instr_size \ {"halt"} /\ ~vm'.panic) =>
            /\ vm'.ip = vm.ip + instr_size[last'.op]
            /\ last'.op = "nop" => vm' = [vm EXCEPT !.ip = @ + 1]]_vars

\* a nop has been executed and ip is still the address of the nop
C21_Witness ==
    /\ last.op = "nop" /\ ~vm.panic
    /\ vm.ip = last.ip
    /\ since_cleanup > 1

\* C22: for every header written, VoxExeHeader::load of the file gives back
\* the magic, version, entry point, data_base, code_size, data_size and
\* function table length of the header and a function table equal entry
\* for entry, and the table starts at offset 0x30 of the file.
C22_HeaderRoundTrip ==
    hist.file # <<>> =>
        \A minVersion \in {v \in Versions : v <= hist.header.version} :
            LET header == hist.header
                got    == VoxExeHeader_load(hist.file, minVersion)
            IN  /\ ~got.panic
                /\ got.magic = header.magic
                /\ got.version = header.version
                /\ got.entry_point = header.entry_point
                /\ got.data_base = header.data_base
                /\ got.code_size = header.code_size
                /\ got.data_size = header.data_size
                /\ got.func_table_len = Len(header.func_table)
                /\ got.func_table = header.func_table
                /\ slice(hist.file, FUNC_TABLE_START,
                         FUNC_TABLE_START + 16 * Len(header.func_table))
                        = func_table_bytes(header.func_table, 0)

\* a VM has loaded an image whose header has a table of three functions
\* and an entry point of more than one byte
C22_Witness ==
    /\ last.op = "load" /\ ~vm.panic
    /\ Len(hist.header.func_table) = 3
    /\ vm.func_table = hist.header.func_table
    /\ vm.ip = hist.header.entry_point
    /\ vm.ip > 256

\* the header of the file is invalid: the magic is not VVE\0 or the
\* version is below the minimum
invalid_header(bytes) ==
    \/ slice(bytes, 0, 4) # MAGIC
    \/ from_be_bytes(slice(bytes, 4, 6)) < MIN_VVE_VERSION

\* C23: the load of an image whose header is invalid aborts, and no
\* instruction of such an image is executed.
C23_InvalidHeaderAborts ==
    (hist.file # <<>> /\ invalid_header(hist.file)) =>
        /\ last.op = "load" => vm.panic
        /\ last.op \in {"none", "write", "load"}

\* the halt of an image whose magic is not VVE\0 has been executed
C23_Witness ==
    /\ last.op = "halt" /\ ~vm.panic /\ ~vm.running
    /\ slice(hist.file, 0, 4) # MAGIC
    /\ from_be_bytes(slice(hist.file, 4, 6)) >= MIN_VVE_VERSION


\* line i of the program is the declaration of a label that no later line
\* declares again
declares(program, i) ==
    /\ program[i].kind = "label"
    /\ \A k \in (i + 1)..Len(program) : program[k] # program[i]

\* line j of the program is a jump to the label of name
jumps_to(program, j, name) ==
    /\ program[j].kind = "instr" /\ program[j].op = "jmp"
    /\ program[j].args[1].label /\ program[j].args[1].name = name

\* the 8-byte immediate of the instruction emitted at offset at
immediate(bin_buffer, at) == from_be_bytes(slice(bin_buffer, at + 1, at + 9))

\* C24: the address the first pass records for a label is the number of
\* bytes the second pass has emitted when it comes to the label, and the
\* immediate emitted for a jump to the label is that offset.
C24_LabelResolution ==
    asm.stage \in {"assemble", "done"} =>
        \A i \in 1..Len(hist.offsets) :
            declares(asm.program, i) =>
                /\ asm.labels[asm.program[i].name] = hist.offsets[i]
                /\ \A j \in 1..Len(hist.offsets) :
                        jumps_to(asm.program, j, asm.program[i].name) =>
                            immediate(asm.bin_buffer, hist.offsets[j]) = hist.offsets[i]

\* a program with a data record, a label after it and a jump to the label
\* has been assembled, and the jump holds the offset of the label
C24_Witness ==
    /\ asm.stage = "done"
    /\ \E i, j, d \in 1..Len(asm.program) :
        /\ d < i /\ asm.program[d].kind = "data"
        /\ declares(asm.program, i)
        /\ jumps_to(asm.program, j, asm.program[i].name)
        /\ hist.offsets[i] > 0
        /\ immediate(asm.output_file, hist.offsets[j]) = hist.offsets[i]

\* the bytes of the inclusive range [start_byte, last_byte] of a block
span(b) == b.start_byte..b.last_byte

\* C38: on a heap of capacity C >= 1 the inclusive byte ranges of the
\* allocated and the free blocks are pairwise disjoint and cover exactly
\* 0..C-1.
C38_HeapPartition ==
    LET blocks == vm.heap.allocated \o vm.heap.free_list
    IN  (heap_size >= 1 /\ last.op \in {"none", "alloc", "free", "free_all"}) =>
            /\ \A i, j \in 1..Len(blocks) :
                    i # j => span(blocks[i]) \cap span(blocks[j]) = {}
            /\ UNION {span(blocks[i]) : i \in 1..Len(blocks)} = 0..(heap_size - 1)

\* a free has put a block back between two allocated ones, on a heap that
\* holds two allocated blocks and two free blocks
C38_Witness ==
    /\ heap_size >= 1
    /\ last.op = "free" /\ last.ok
    /\ Len(vm.heap.allocated) = 2
    /\ Len(vm.heap.free_list) = 2

\* the step is an alloc or allocr that failed: it has queued
\* HeapAllocationFault
alloc_failed ==
    /\ last'.op \in {"alloc", "allocr"}
    /\ vm'.exceptions_active = Append(vm.exceptions_active, "HeapAllocationFault")

\* C31: an alloc or allocr that fails with HeapAllocationFault adds no
\* object to the tracking list of the collector.
C31_NoObjectOnFailedAlloc ==
    [][alloc_failed => vm'.gc.objects = vm.gc.objects]_vars

\* a third alloc has failed on a heap that two blocks fill, and the tracking
\* list holds a third object, of pointer 0
C31_Witness ==
    /\ last.op = "alloc"
    /\ Len(vm.heap.allocated) = 2 /\ vm.heap.free_list = <<>>
    /\ vm.exceptions_active = <<"HeapAllocationFault">>
    /\ Len(vm.gc.objects) = 3
    /\ vm.gc.objects[3].heap_ptr = 0

\* the relation of the first compared register to the second under which
\* a conditional jump is to be taken
relation_of(op) ==
    CASE op = "jz"  -> {"eq"}
      [] op = "jl"  -> {"lt"}
      [] op = "jg"  -> {"gt"}
      [] op = "jge" -> {"gt", "eq"}
      [] op = "jle" -> {"lt", "eq"}

\* C35: after ucmp or icmp of two registers a and b of one tag ZF is 1 iff
\* a = b and NF is 1 iff a < b, and the conditional jump executed next is
\* taken exactly when its relation holds (jz =, jl <, jg >, jge >=, jle <=);
\* a jump that is not taken adds 9 to ip.
C35_CompareAndJump ==
    /\ (last.op \in {"ucmp", "icmp"}
            /\ vm.reg_types[last.n] = vm.reg_types[last.ptr]) =>
        LET rel == order(vm.registers[last.n], vm.registers[last.ptr],
                         vm.reg_types[last.n])
        IN  /\ vm.flags[2] = (IF rel = "eq" THEN 1 ELSE 0)
            /\ vm.flags[3] = (IF rel = "lt" THEN 1 ELSE 0)
    /\ (last.op \in {"jz", "jl", "jg", "jge", "jle"}
            /\ last.rel \in {"eq", "lt", "gt"}) =>
        vm.ip = (IF last.rel \in relation_of(last.op)
                 THEN last.ptr ELSE last.ip + 9)

\* a jge after the comparison of two equal registers has been taken, to an
\* address that is not the one after the jump, with an int of -1 in a register
C35_Witness ==
    /\ last.op = "jge" /\ last.rel = "eq"
    /\ last.ptr # last.ip + 9
    /\ vm.ip = last.ptr
    /\ \E r \in CmpRegs : vm.registers[r] = Register("int", -1)

\* C36: a ucmp or icmp of two registers whose variants differ aborts the
\* VM.
C36_MixedCompareAborts ==
    (last.op \in {"ucmp", "icmp"}
        /\ vm.registers[last.n].tag # vm.registers[last.ptr].tag) => vm.panic

\* a ucmp of a uint and an int register has cleared ZF and NF and gone on to
\* the next instruction
C36_Witness ==
    /\ last.op = "ucmp" /\ ~vm.panic
    /\ vm.registers[last.n].tag = "uint" /\ vm.registers[last.ptr].tag = "int"
    /\ vm.registers[last.n].val = vm.registers[last.ptr].val
    /\ vm.flags[2] = 0 /\ vm.flags[3] = 0
    /\ vm.ip = last.ip + 3

\* the tag of reg_types that goes with a variant of Register
tag_of_variant(variant) ==
    CASE variant = "uint"  -> "uint64"
      [] variant = "int"   -> "int64"
      [] variant = "float" -> "float64"
      [] OTHER             -> variant

\* C32: after every instruction the variant of each register is the one of
\* the tag recorded for it in reg_types.
C32_VariantEqualsTag ==
    \A i \in DOMAIN vm.registers :
        tag_of_variant(vm.registers[i].tag) = vm.reg_types[i]

\* an ineg of a uint register has left a uint under the tag int64, next to
\* a register loaded by iload whose variant and tag agree
C32_Witness ==
    /\ last.op = "ineg"
    /\ vm.registers[last.n].tag = "uint" /\ vm.reg_types[last.n] = "int64"
    /\ \E i \in DOMAIN vm.registers :
        vm.registers[i].tag = "int" /\ vm.reg_types[i] = "int64"

\* C33: each of or, and, not, xor, test and lnot leaves ZF = 1 if its result
\* is zero and ZF = 0 otherwise, whatever ZF was, and changes no other flag.
C33_BitwiseSetsOnlyZF ==
    [][ (last'.op \in Bitwise /\ ~vm'.panic) =>
            /\ vm'.flags[2] = (IF last'.zero THEN 1 ELSE 0)
            /\ \A k \in DOMAIN vm.flags \ {2} : vm'.flags[k] = vm.flags[k] ]_vars

\* a xor of a register holding 2 with itself has given zero and ZF is 1
C33_Witness ==
    /\ last.op = "xor" /\ last.zero /\ ~vm.panic
    /\ vm.registers[last.n] = Register("uint", 0)
    /\ vm.flags[2] = 1
    /\ \E r \in CmpRegs : vm.registers[r].val = 2

\* C34: each of uadd, usub, umul, udec, iadd, isub, imul, iinc and idec
\* leaves ZF = 1 if its result is zero and ZF = 0 otherwise, and a jz that
\* follows it is taken exactly when the result was zero.
C34_ArithmeticSetsZF ==
    /\ (last.op \in Arithmetic /\ ~vm.panic) =>
            vm.flags[2] = (IF last.zero THEN 1 ELSE 0)
    /\ (last.op = "jz" /\ last.rel \in {"zero", "nonzero"}) =>
            vm.ip = (IF last.rel = "zero" THEN last.ptr ELSE last.ip + 9)

\* a jz after an arithmetic instruction that gave zero has been taken, to an address that is
\* not the one after the jz
C34_Witness ==
    /\ last.op = "jz" /\ last.rel = "zero"
    /\ last.ptr # last.ip + 9 /\ vm.ip = last.ptr
    /\ vm.flags[2] = 1

\* the tag the record type is to give: uint for 0x1 and 0x6, int for 0x2
\* and 0x7, float for 0x3 and 0x8
tag_of_record(type) ==
    CASE type \in {1, 6} -> "uint64"
      [] type \in {2, 7} -> "int64"
      [] type \in {3, 8} -> "float64"

\* C37: for a record of type 0x1, 0x2, 0x3, 0x6, 0x7 or 0x8, const or not,
\* a dsload of the record and a dsderef through a ds_addr that dslea made
\* for it are not fatal and leave the same tag: uint for 0x1 and 0x6, int
\* for 0x2 and 0x7, float for 0x3 and 0x8.
C37_DerefDecodesAsLoad ==
    (last.op \in {"dsload", "dsderef"} /\ last.ok) =>
        /\ ~vm.panic
        /\ vm.reg_types[last.n] =
                tag_of_record(clear_type(vm.memory[vm.data_base]))

\* a dsderef through a ds_addr to an int record that is not const has left
\* the tag int64 and the payload of the record
C37_Witness ==
    /\ last.op = "dsderef" /\ last.ok /\ ~vm.panic
    /\ vm.memory[vm.data_base] = 2
    /\ vm.reg_types[last.n] = "int64"
    /\ vm.registers[last.n].val = DsValue

\* C39: no step of the run (a store that overwrites a slot, a free, the
\* sweep of a collection cycle, an alloc that reuses a freed address) takes
\* an edge out of saved_refs.
C39_SavedRefsOnlyGrow ==
    [][vm.heap.saved_refs \subseteq vm'.heap.saved_refs]_vars

\* a collection cycle has freed a block and saved_refs still holds an edge
\* that leaves the freed block
C39_Witness ==
    /\ cycle.ran /\ cycle.freed # {}
    /\ \E e \in vm.heap.saved_refs :
        /\ e[1] \in cycle.freed
        /\ \A i \in DOMAIN vm.heap.allocated : vm.heap.allocated[i].start_byte # e[1]

\* the roots of a collection cycle and what mark reaches from them
live_roots == vm.gc.main_refs \cup gc_gen_reg_set(vm) \cup fetch_dstack_refs(vm)

is_reachable(ptr) == ptr \in reachable_from(live_roots, vm.heap.saved_refs)

is_tracked(ptr) ==
    \E i \in DOMAIN vm.gc.objects : vm.gc.objects[i].heap_ptr = ptr

is_allocated(ptr) ==
    \E i \in DOMAIN vm.heap.allocated : vm.heap.allocated[i].start_byte = ptr

\* the addresses alloc returns in the runs of SpecLive: the blocks of
\* size_bytes + 1 bytes lie one after the other from 0
LivePtrs == {k * (size_bytes + 1) : k \in 0..2, size_bytes \in LiveSizes}

\* C40: while the VM goes on executing instructions, a tracked block that
\* is allocated and not reachable from the registers and the stack along
\* saved_refs is, unless it becomes reachable again, eventually out of the
\* tracking list and not allocated.
C40_EventualCollection ==
    \A ptr \in LivePtrs :
        (is_tracked(ptr) /\ is_allocated(ptr) /\ ~is_reachable(ptr))
            ~> \/ ~is_tracked(ptr) /\ ~is_allocated(ptr)
               \/ is_reachable(ptr)
               \/ vm.panic \/ ~vm.running

\* a later collection cycle has taken the objects off the tracking list that
\* an earlier one had left behind, and freed their blocks: before it every
\* tracked object was unreachable and the block at 0 was free already (the
\* runs have no free instruction); after it nothing is tracked or allocated
C40_Witness ==
    /\ cycle.ran /\ cycle.freed # {}
    /\ cycle.pre.gc.objects # <<>>
    /\ \A i \in DOMAIN cycle.pre.gc.objects :
        cycle.pre.gc.objects[i].heap_ptr \notin
            reachable_from(cycle.pre.gc.main_refs \cup gc_gen_reg_set(cycle.pre)
                                \cup fetch_dstack_refs(cycle.pre),
                           cycle.pre.heap.saved_refs)
    /\ \E i \in DOMAIN cycle.pre.heap.free_list :
        cycle.pre.heap.free_list[i].start_byte = 0
    /\ cycle.pre.heap.allocated # <<>>
    /\ vm.gc.objects = <<>> /\ vm.heap.allocated = <<>>
    /\ Len(vm.heap.free_list) = 1
====
